---- MODULE Spec2Model ----
(***************************************************************************)
(* Model of the daily work-reporting backend (src/backend): the follow-up  *)
(* question parser and generator of ai_service.py, the two-stage update    *)
(* store of database.py and the routes of main.py.                         *)
(*                                                                         *)
(* Text is a sequence of one-character strings; Chars turns a string       *)
(* literal into such a sequence.  Python's None is the value None below.   *)
(***************************************************************************)
EXTENDS Integers, Sequences, FiniteSets, TLC

VARIABLES
    response,           \* the external model's reply text (response.text)
    parsed,             \* outcome of the last _parse_questions_from_response call
    genIn,              \* arguments and environment of the last generate call, or
                        \* the list given to the yesterday's-plans lookup
    genOut,             \* outcome of that call
    clock,              \* datetime.now(), in hours since 2024-01-01 00:00
    temp_work_updates,  \* the temp_work_updates collection
    work_updates,       \* the work_updates (permanent) collection
    followup_sessions,  \* the followup_sessions collection
    next_id,            \* the next ObjectId the store assigns on insert
    next_uuid,          \* the next uuid4 save_followup_session draws
    calls,              \* requests and store events so far
    result,             \* the last request: its operation, arguments and outcome
    cleanup_run,        \* the cleanup_abandoned_temp_updates call in progress: its
                        \* position, its cursor and its counters
    submit_run,         \* the POST /api/work-updates requests in progress, each with
                        \* its position and its local variables
    app,                \* the application's lifespan: its phase, the background
                        \* cleanup task and the persistence connection
    complete_run        \* the PUT /api/followup/{session_id}/complete request in
                        \* progress: its position and its local variables

pureVars == << response, parsed, genIn, genOut >>

storeVars == << clock, temp_work_updates, work_updates, followup_sessions,
                next_id, next_uuid, calls, result, cleanup_run, submit_run, app, complete_run >>

vars == << response, parsed, genIn, genOut, clock, temp_work_updates, work_updates,
           followup_sessions, next_id, next_uuid, calls, result, cleanup_run,
           submit_run, app, complete_run >>

(***************************************************************************)
(* Text primitives (Python str methods and the re calls the parser uses)   *)
(***************************************************************************)
Chars(s) == [i \in 1..Len(s) |-> SubSeq(s, i, i)]

None == << "<None>" >>

Whitespace == {" ", "\t", "\n", "\r"}

Digits == {"0", "1", "2", "3", "4", "5", "6", "7", "8", "9"}

UpperCase == Chars("ABCDEFGHIJKLMNOPQRSTUVWXYZ")

LowerCase == Chars("abcdefghijklmnopqrstuvwxyz")

SetMin(S) == CHOOSE x \in S : \A y \in S : x <= y

SetMax(S) == CHOOSE x \in S : \A y \in S : x >= y

\* str.strip()
Strip(s) ==
    LET keep == {i \in 1..Len(s) : s[i] \notin Whitespace}
    IN  IF keep = {} THEN << >> ELSE SubSeq(s, SetMin(keep), SetMax(keep))

\* str.split(c) for a one-character separator: always at least one piece
Split(s, c) ==
    LET P == {i \in 1..Len(s) : s[i] = c}
        Kth(k) == CHOOSE p \in P : Cardinality({q \in P : q < p}) = k - 1
        From(k) == IF k = 1 THEN 1 ELSE Kth(k - 1) + 1
        To(k) == IF k = Cardinality(P) + 1 THEN Len(s) ELSE Kth(k) - 1
    IN  [k \in 1..(Cardinality(P) + 1) |-> SubSeq(s, From(k), To(k))]

\* '\n'.join(lines)
RECURSIVE JoinLines(_)
JoinLines(lines) ==
    IF Len(lines) = 0 THEN << >>
    ELSE IF Len(lines) = 1 THEN lines[1]
    ELSE lines[1] \o << "\n" >> \o JoinLines(Tail(lines))

StartsWith(s, p) == Len(s) >= Len(p) /\ SubSeq(s, 1, Len(p)) = p

EndsWith(s, p) == Len(s) >= Len(p) /\ SubSeq(s, Len(s) - Len(p) + 1, Len(s)) = p

\* c in s
HasChar(s, c) == \E i \in 1..Len(s) : s[i] = c

\* needle in hay
Contains(hay, needle) ==
    \E i \in 0..(Len(hay) - Len(needle)) : SubSeq(hay, i + 1, i + Len(needle)) = needle

\* str.lower()
Lower(s) ==
    [i \in 1..Len(s) |->
        IF \E k \in 1..Len(UpperCase) : UpperCase[k] = s[i]
        THEN LowerCase[CHOOSE k \in 1..Len(UpperCase) : UpperCase[k] = s[i]]
        ELSE s[i]]

\* s.split(':', 1)[-1]: the text after the first colon, the whole text without one
AfterFirstColon(s) ==
    LET P == {i \in 1..Len(s) : s[i] = ":"}
    IN  IF P = {} THEN s ELSE SubSeq(s, SetMin(P) + 1, Len(s))

\* the index of the last character of the whitespace run that starts at i (i - 1 if none)
SpaceRunEnd(s, i) ==
    LET stop == {j \in i..Len(s) : s[j] \notin Whitespace}
    IN  IF stop = {} THEN Len(s) ELSE SetMin(stop) - 1

\* re.match(r'^\d+[.\)]\s*', s): length of the match, 0 for no match
NumberMarkerLen(s) ==
    LET nond == {i \in 1..Len(s) : s[i] \notin Digits}
        d == IF nond = {} THEN Len(s) ELSE SetMin(nond) - 1
    IN  IF d >= 1 /\ d < Len(s) /\ s[d + 1] \in {".", ")"}
        THEN SpaceRunEnd(s, d + 2)
        ELSE 0

\* re.sub(r'^\d+[.\)]\s*', '', s)
StripNumberMarker(s) == SubSeq(s, NumberMarkerLen(s) + 1, Len(s))

\* where a match of r'\*\*.*?\*\*:\s*' that starts at i ends; 0 for no match at i
BoldLabelEnd(s, i) ==
    LET close == {j \in (i + 2)..(Len(s) - 2) :
                    /\ s[j] = "*" /\ s[j + 1] = "*" /\ s[j + 2] = ":"
                    /\ \A k \in (i + 2)..(j - 1) : s[k] # "\n"}
    IN  IF i + 1 <= Len(s) /\ s[i] = "*" /\ s[i + 1] = "*" /\ close # {}
        THEN SpaceRunEnd(s, SetMin(close) + 3)
        ELSE 0

\* re.sub(r'\*\*.*?\*\*:\s*', '', s): every leftmost non-overlapping match removed
RECURSIVE StripBoldFrom(_, _)
StripBoldFrom(s, i) ==
    IF i > Len(s) THEN << >>
    ELSE IF BoldLabelEnd(s, i) = 0 THEN << s[i] >> \o StripBoldFrom(s, i + 1)
    ELSE StripBoldFrom(s, BoldLabelEnd(s, i) + 1)

StripBoldLabels(s) == StripBoldFrom(s, 1)

(***************************************************************************)
(* Response Parser: AIFollowupService._parse_questions_from_response       *)
(***************************************************************************)
QuestionTextMarker == Chars("**Question Text**")

\* _get_default_questions
get_default_questions ==
    << Chars("What technical challenges did you face this week that you'd like help with?"),
       Chars("Have you encountered any bugs or issues that are taking longer than expected to resolve?"),
       Chars("What new skills or concepts have you learned recently that you'd like to discuss?") >>

\* one iteration of the Method 1 loop: the questions this line appends
StructuredCandidate(line) ==
    LET trimmed == Strip(line)
        question == Strip(AfterFirstColon(trimmed))
    IN  IF StartsWith(trimmed, QuestionTextMarker) /\ question # << >> /\ Len(question) > 10
        THEN << question >>
        ELSE << >>

\* the Method 2 loop body without the removal of bold labels (line 290 left out)
numbered_keeps_bold(line) ==
    LET trimmed == Strip(line)
        question == Strip(StripNumberMarker(trimmed))
    IN  IF NumberMarkerLen(trimmed) > 0 /\ question # << >> /\ Len(question) > 10
        THEN << question >>
        ELSE << >>

\* one iteration of the Method 2 loop
NumberedCandidate(line) ==
    LET trimmed == Strip(line)
        question == StripBoldLabels(Strip(StripNumberMarker(trimmed)))
    IN  IF NumberMarkerLen(trimmed) > 0 /\ question # << >> /\ Len(question) > 10
        THEN << question >>
        ELSE << >>

RECURSIVE StructuredPass(_)
StructuredPass(lines) ==
    IF lines = << >> THEN << >>
    ELSE StructuredCandidate(Head(lines)) \o StructuredPass(Tail(lines))

RECURSIVE NumberedPass(_)
NumberedPass(lines) ==
    IF lines = << >> THEN << >>
    ELSE NumberedCandidate(Head(lines)) \o NumberedPass(Tail(lines))

\* the Method 3 test "skip empty lines and headers" (and binds tighter than or)
PatternSkips(trimmed) ==
    \/ trimmed = << >>
    \/ StartsWith(trimmed, << "#" >>)
    \/ (StartsWith(trimmed, << "*", "*" >>) /\ ~EndsWith(trimmed, << "?" >>))

\* one iteration of the Method 3 loop, given the questions collected so far
PatternCandidate(line, questions) ==
    LET trimmed == Strip(line)
        question == Strip(StripBoldLabels(StripNumberMarker(trimmed)))
    IN  IF /\ ~PatternSkips(trimmed)
           /\ HasChar(trimmed, "?") /\ Len(trimmed) > 15
           /\ question # << >>
           /\ ~\E k \in 1..Len(questions) : Contains(Lower(question), Lower(questions[k]))
        THEN << question >>
        ELSE << >>

\* the Method 3 loop from line i on; it breaks once 3 questions are collected
RECURSIVE PatternPass(_, _, _)
PatternPass(lines, i, questions) ==
    IF i > Len(lines) \/ Len(questions) >= 3 THEN questions
    ELSE PatternPass(lines, i + 1, questions \o PatternCandidate(lines[i], questions))

\* "Ensure exactly 3 questions" (lines 323-332): truncate, or fill from the defaults
\* the fill loop with its bound off by one (while len(questions) < 2)
FillOffByOne(questions, defaults) ==
    IF Len(questions) < 2 /\ Len(questions) < Len(defaults)
    THEN questions \o SubSeq(defaults, Len(questions) + 1, 2)
    ELSE questions

RECURSIVE FillFromDefaults(_, _)
FillFromDefaults(questions, defaults) ==
    IF Len(questions) < 3 /\ Len(questions) < Len(defaults)
    THEN FillFromDefaults(Append(questions, defaults[Len(questions) + 1]), defaults)
    ELSE questions

EnsureThree(questions) ==
    IF Len(questions) > 3 THEN SubSeq(questions, 1, 3)
    ELSE IF Len(questions) < 3 THEN FillFromDefaults(questions, get_default_questions)
    ELSE questions

\* the logger calls that tell which branches ran, given how many questions each
\* method left
PassTags(n1, n2, n3) ==
    {"parsing"}
    \cup (IF n1 < 3 THEN {"numbered"} ELSE {})
    \cup (IF n2 < 3 THEN {"pattern"} ELSE {})
    \cup (IF n3 > 3 THEN {"trimmed"} ELSE {})
    \cup (IF n3 < 3 THEN {"filling"} ELSE {})

\* lines 321-334: the list made exactly 3 long and returned
ParseFinish(n1, n2, questions) ==
    [questions |-> EnsureThree(questions), log |-> PassTags(n1, n2, Len(questions))]

\* Method 3 (lines 296-319), run if Method 2 left fewer than 3 questions
ParseMethod3(lines, n1, questions) ==
    ParseFinish(n1, Len(questions),
                IF Len(questions) < 3 THEN PatternPass(lines, 1, << >>) ELSE questions)

\* Method 2 without its reset (questions = [] of line 281 left out): the numbered
\* candidates are appended to the structured ones
method2_keeps_structured(lines, questions) ==
    ParseMethod3(lines, Len(questions),
                 IF Len(questions) < 3 THEN questions \o NumberedPass(lines) ELSE questions)

\* Method 2 (lines 278-294), run if Method 1 left fewer than 3 questions
ParseMethod2(lines, questions) ==
    ParseMethod3(lines, Len(questions),
                 IF Len(questions) < 3 THEN NumberedPass(lines) ELSE questions)

\* one run of _parse_questions_from_response: what it returns and what it logs
ParseRun(text) == ParseMethod2(Split(text, "\n"), StructuredPass(Split(text, "\n")))

ParseLog(text) == ParseRun(text).log

parse_questions_from_response(text) == ParseRun(text).questions

(***************************************************************************)
(* Values with Python's dynamic types.  A point in time is a count of      *)
(* hours since 2024-01-01 00:00; a timestamp field holds a datetime, a     *)
(* string or None.  A call either returns a value or raises.               *)
(***************************************************************************)
HoursPerDay == 24

DateTime(t) == [tag |-> "datetime", t |-> t]

StrValue(s) == [tag |-> "str", s |-> s]

NoneValue == [tag |-> "none"]

Return(v) == [raised |-> FALSE, val |-> v]

Raise(e) == [raised |-> TRUE, exc |-> e]

\* dict.get(key, default)
Get(d, key, default) == IF key \in DOMAIN d THEN d[key] ELSE default

\* bool(text) for a str or None
Truthy(text) == text # None /\ text # << >>

\* datetime.date(): the calendar day of a point in time
DateOf(t) == t \div HoursPerDay

TwoDigits(n) == << CHOOSE c \in Digits : Chars("0123456789")[(n \div 10) + 1] = c,
                   CHOOSE c \in Digits : Chars("0123456789")[(n % 10) + 1] = c >>

\* strftime('%Y-%m-%d') of a calendar day (days of January 2024)
FormatDate(day) == Chars("2024-01-") \o TwoDigits(day + 1)

\* dateutil's parser.parse on a date string, caught: the datetime at midnight of a
\* 'YYYY-MM-DD' text, None (after the warning) for a text that does not parse
parse_date(s) ==
    IF \E day \in 0..30 : FormatDate(day) = s
    THEN DateTime((CHOOSE day \in 0..30 : FormatDate(day) = s) * HoursPerDay)
    ELSE NoneValue

(***************************************************************************)
(* Context Builder and Prompt Composer (ai_service.py)                     *)
(***************************************************************************)
\* _extract_timestamp: the submission timestamp, else the generic one, else the date
extract_timestamp(doc) ==
    IF "submittedAt" \in DOMAIN doc THEN doc.submittedAt
    ELSE IF "timestamp" \in DOMAIN doc THEN doc.timestamp
    ELSE IF "date" \in DOMAIN doc /\ doc.date.tag = "datetime" THEN doc.date
    ELSE IF "date" \in DOMAIN doc /\ doc.date.tag = "str" THEN parse_date(doc.date.s)
    ELSE NoneValue

\* bool(timestamp): None and the empty string are falsy
TimestampTruthy(ts) == ts.tag = "datetime" \/ (ts.tag = "str" /\ ts.s # << >>)

\* _build_current_work_context
build_current_work_context(work_data) ==
    IF Get(work_data, "description", << >>) = None
    THEN Raise("AttributeError")
    ELSE
        LET description == Strip(Get(work_data, "description", << >>))
            challenges == IF Truthy(Get(work_data, "challenges", None))
                          THEN Strip(Get(work_data, "challenges", << >>))
                          ELSE None
        IN  Return(JoinLines(
                << Chars("CURRENT WORK UPDATE:") >>
                \o (IF description # << >>
                    THEN << Chars("Work Description: ") \o description >> ELSE << >>)
                \o (IF Truthy(challenges)
                    THEN << Chars("Challenges Today: ") \o challenges >> ELSE << >>)
                \o << Chars("---") >>))

\* the lines one document adds to the history block (the loop body, lines 135-149)
HistoryBlock(doc) ==
    LET date_time == extract_timestamp(doc)
        description == Strip(Get(doc, "description", << >>))
        challenges == IF Truthy(Get(doc, "challenges", None))
                      THEN Strip(Get(doc, "challenges", << >>)) ELSE None
        plans == IF Truthy(Get(doc, "plans", None))
                 THEN Strip(Get(doc, "plans", << >>)) ELSE None
        date_str == IF date_time.tag = "datetime"
                    THEN FormatDate(DateOf(date_time.t)) ELSE Chars("Unknown")
    IN  << Chars("Date: ") \o date_str >>
        \o (IF description # << >> THEN << Chars("Work: ") \o description >> ELSE << >>)
        \o (IF Truthy(challenges) THEN << Chars("Challenges: ") \o challenges >> ELSE << >>)
        \o (IF Truthy(plans) THEN << Chars("Plans: ") \o plans >> ELSE << >>)
        \o << Chars("---") >>

RECURSIVE HistoryBlocks(_)
HistoryBlocks(docs) ==
    IF docs = << >> THEN << >> ELSE HistoryBlock(Head(docs)) \o HistoryBlocks(Tail(docs))

\* _build_work_history_context: .strip() of a None description raises; so does
\* strftime of a timestamp that is a string
build_work_history_context(docs) ==
    IF \E i \in 1..Len(docs) :
          \/ Get(docs[i], "description", << >>) = None
          \/ extract_timestamp(docs[i]).tag = "str" /\ TimestampTruthy(extract_timestamp(docs[i]))
    THEN Raise("AttributeError")
    ELSE Return(JoinLines(<< Chars("RECENT WORK HISTORY:") >> \o HistoryBlocks(docs)))

NoPlansFound == Chars("No previous plans found")

\* timestamp and timestamp.date() == day, for a timestamp that is a datetime or None
DatedOn(doc, day) ==
    LET timestamp == extract_timestamp(doc)
    IN  timestamp.tag = "datetime" /\ DateOf(timestamp.t) = day

\* a timestamp that is a non-empty string has no .date()
DateRaises(doc) ==
    extract_timestamp(doc).tag = "str" /\ TimestampTruthy(extract_timestamp(doc))

\* first loop of _extract_yesterday_plans_from_recent_docs, from document i on
RECURSIVE YesterdayLoop(_, _, _)
YesterdayLoop(docs, i, today) ==
    IF i > Len(docs) THEN Return(<< >>)
    ELSE IF DateRaises(docs[i]) THEN Raise("AttributeError")
    ELSE IF ~DatedOn(docs[i], today - 1) THEN YesterdayLoop(docs, i + 1, today)
    ELSE IF Get(docs[i], "plans", << >>) = None THEN Raise("AttributeError")
    ELSE IF Strip(Get(docs[i], "plans", << >>)) # << >>
         THEN Return(Strip(Get(docs[i], "plans", << >>)))
    ELSE YesterdayLoop(docs, i + 1, today)

\* second loop: the first non-blank plans of a document not dated today
RECURSIVE RecentLoop(_, _, _)
RecentLoop(docs, i, today) ==
    IF i > Len(docs) THEN Return(NoPlansFound)
    ELSE IF DateRaises(docs[i]) THEN Raise("AttributeError")
    ELSE IF DatedOn(docs[i], today) THEN RecentLoop(docs, i + 1, today)
    ELSE IF Get(docs[i], "plans", << >>) = None THEN Raise("AttributeError")
    ELSE IF Strip(Get(docs[i], "plans", << >>)) # << >>
         THEN Return(Strip(Get(docs[i], "plans", << >>)))
    ELSE RecentLoop(docs, i + 1, today)

\* _extract_yesterday_plans_from_recent_docs
extract_yesterday_plans_from_recent_docs(recent_docs, now) ==
    IF recent_docs = << >> THEN Return(NoPlansFound)
    ELSE
        LET first == YesterdayLoop(recent_docs, 1, DateOf(now))
        IN  IF first.raised \/ first.val # << >> THEN first
            ELSE RecentLoop(recent_docs, 1, DateOf(now))

ChallengesLabel == Chars("Challenges Today:")

\* str.replace(old, '') : every non-overlapping occurrence removed, left to right
RECURSIVE RemoveAll(_, _, _)
RemoveAll(s, old, i) ==
    IF i > Len(s) THEN << >>
    ELSE IF i + Len(old) - 1 <= Len(s) /\ SubSeq(s, i, i + Len(old) - 1) = old
         THEN RemoveAll(s, old, i + Len(old))
    ELSE << s[i] >> \o RemoveAll(s, old, i + 1)

\* _extract_current_challenges
extract_current_challenges(current_context) ==
    LET lines == Split(current_context, "\n")
        hits == {i \in 1..Len(lines) : StartsWith(Strip(lines[i]), ChallengesLabel)}
    IN  IF hits = {} THEN Chars("No challenges mentioned")
        ELSE Strip(RemoveAll(lines[SetMin(hits)], ChallengesLabel, 1))

\* _build_ai_prompt: the four texts interpolated into the fixed template
build_ai_prompt(current_context, history_context, recent_docs, now) ==
    LET yesterday_plans == extract_yesterday_plans_from_recent_docs(recent_docs, now)
    IN  IF yesterday_plans.raised THEN yesterday_plans
        ELSE Return([today_work_update |-> current_context,
                     yesterday_plans |-> yesterday_plans.val,
                     current_challenges |-> extract_current_challenges(current_context),
                     seven_day_history |-> history_context])

(***************************************************************************)
(* Generate questions: AIFollowupService.generate_followup_questions       *)
(***************************************************************************)
\* a cursor's to_list: the documents in natural (insertion, here _id) order
ToList(docs) ==
    LET rank(d) == Cardinality({e \in docs : e._id < d._id}) + 1
    IN  [k \in 1..Cardinality(docs) |-> CHOOSE d \in docs : rank(d) = k]

\* collection.find({"userId": user_id}).to_list(None)
Find(collection, user_id) == ToList({d \in collection : d.userId = user_id})

\* "timestamp and timestamp > week_ago" raises TypeError for a non-empty string
FilterRaises(docs) ==
    \E i \in 1..Len(docs) :
        extract_timestamp(docs[i]).tag = "str" /\ TimestampTruthy(extract_timestamp(docs[i]))

\* filtered_docs: the documents with a timestamp after week_ago, in list order
RECURSIVE FilterRecent(_, _)
FilterRecent(docs, week_ago) ==
    IF docs = << >> THEN << >>
    ELSE (IF /\ extract_timestamp(Head(docs)).tag = "datetime"
             /\ extract_timestamp(Head(docs)).t > week_ago
          THEN << Head(docs) >> ELSE << >>)
         \o FilterRecent(Tail(docs), week_ago)

\* list.sort(key=timestamp, reverse=True): newest first, stable for equal timestamps
SortNewestFirst(docs) ==
    LET key(i) == extract_timestamp(docs[i]).t
        rank(i) == Cardinality({j \in 1..Len(docs) : key(j) > key(i)})
                   + Cardinality({j \in 1..(i - 1) : key(j) = key(i)}) + 1
    IN  [k \in 1..Len(docs) |-> docs[CHOOSE i \in 1..Len(docs) : rank(i) = k]]

\* recent_docs without the cut to 10
recent_uncapped(all_work_updates, now) ==
    SortNewestFirst(FilterRecent(all_work_updates, now - 7 * HoursPerDay))

\* recent_docs = filtered_docs[:10]
RecentDocs(all_work_updates, now) ==
    LET sorted == SortNewestFirst(FilterRecent(all_work_updates, now - 7 * HoursPerDay))
    IN  SubSeq(sorted, 1, IF Len(sorted) < 10 THEN Len(sorted) ELSE 10)

\* the test without its strip (if response.text:)
ReplyHasTextNoStrip(reply) == Truthy(reply)

\* "if response.text and response.text.strip()" (line 73)
ReplyHasText(reply) == Truthy(reply) /\ Strip(reply) # << >>

\* lines 76-81: the parsed questions if there are at least 3, else the defaults
ParsedReply(parse) ==
    IF Len(parse.questions) >= 3
    THEN Return([questions |-> parse.questions, log |-> parse.log \cup {"generated"}])
    ELSE Return([questions |-> get_default_questions, log |-> parse.log \cup {"too_few"}])

\* the body of the try block (lines 30-85); `fault` is the environment's failure
\* (a store read or the model call throwing), `reply` the model's response.text
GenerateTry(user_id, work_update_data, work_updates_collection, temp_updates_collection, now, fault, reply) ==
    LET permanent_updates == Find(work_updates_collection, user_id)
        temp_list == Find(temp_updates_collection, user_id)
        all_work_updates == permanent_updates \o temp_list
        recent_docs == RecentDocs(all_work_updates, now)
        current_context == IF DOMAIN work_update_data # {}
                           THEN build_current_work_context(work_update_data)
                           ELSE Return(<< >>)
        history_context == IF recent_docs # << >>
                           THEN build_work_history_context(recent_docs)
                           ELSE Return(<< >>)
        prompt == build_ai_prompt(current_context.val, history_context.val, recent_docs, now)
    IN  IF fault = "store_read" THEN Raise("PyMongoError")
        ELSE IF FilterRaises(all_work_updates) THEN Raise("TypeError")
        ELSE IF current_context.raised THEN current_context
        ELSE IF history_context.raised THEN history_context
        ELSE IF prompt.raised THEN prompt
        ELSE IF fault = "model_call" THEN Raise("GoogleAPIError")
        ELSE IF ReplyHasText(reply) THEN ParsedReply(ParseRun(reply))
        ELSE Return([questions |-> get_default_questions, log |-> {"empty_reply"}])

\* the try block's outcome with no except clause: the exception escapes
Reraised(try) ==
    IF try.raised
    THEN [raised |-> TRUE, questions |-> << >>, log |-> {"error"}]
    ELSE [raised |-> FALSE, questions |-> try.val.questions, log |-> try.val.log]

\* the except clause (lines 88-91): any exception is logged and the defaults returned
ExceptDefaults(try) ==
    IF try.raised
    THEN [raised |-> FALSE, questions |-> get_default_questions, log |-> {"error"}]
    ELSE [raised |-> FALSE, questions |-> try.val.questions, log |-> try.val.log]

\* generate_followup_questions without its except clause
generate_reraises(user_id, work_update_data, work_updates_collection, temp_updates_collection, now, fault, reply) ==
    Reraised(GenerateTry(user_id, work_update_data, work_updates_collection, temp_updates_collection, now, fault, reply))

\* generate_followup_questions
generate_followup_questions(user_id, work_update_data, work_updates_collection, temp_updates_collection, now, fault, reply) ==
    ExceptDefaults(GenerateTry(user_id, work_update_data, work_updates_collection, temp_updates_collection, now, fault, reply))

(***************************************************************************)
(* Parser specification: a reply is built line by line, then parsed        *)
(***************************************************************************)
MaxLines == 4

ReplyLines ==
    { Chars("1. How did you test it?"),
      Chars("2) **Blockers**: What blocked you?"),
      Chars("3. Why?"),
      Chars("**Question Text**: What steps did you follow?"),
      Chars("  WHAT BLOCKED YOU?  "),
      Chars("# Notes: any questions so far?"),
      Chars(" \t"),
      << >> }

\* whole replies: numbered lines followed by three structured lines, and numbered
\* lines of which one is short once its bold label is removed
FullReplies ==
    { JoinLines(<< Chars("1. How did you test it?"),
                   Chars("2. Which part was hardest?"),
                   Chars("3. What is left to finish?"),
                   Chars("**Question Text**: What steps did you follow?"),
                   Chars("**Question Text**: Who reviewed the change?"),
                   Chars("**Question Text**: When will it ship?") >>),
      JoinLines(<< Chars("1. How did you test it?"),
                   Chars("2) **Next**: Why so?"),
                   Chars("3) **Blockers**: What blocked you?"),
                   Chars("4. Which part was hardest?") >>) }

NoCall == [called |-> FALSE]

NumLines(text) == Len(Split(text, "\n"))

GenIdle == genIn = NoCall /\ genOut = NoCall

\* the requests that can be in progress at the same time
Requests == {1, 2}

\* the application after startup (lifespan up to its yield): the connection is open
\* and the background cleanup task has been created, at the top of its loop
Serving ==
    [phase |-> "serving", cleanup_task |-> "loop", cancel_requested |-> FALSE,
     ttl_working |-> FALSE, last_run |-> "none", connected |-> TRUE]

\* the stores before any request
StoresIdle ==
    /\ clock = 0
    /\ temp_work_updates = {} /\ work_updates = {} /\ followup_sessions = {}
    /\ next_id = 1 /\ next_uuid = 1 /\ calls = 0
    /\ cleanup_run = [pc |-> "idle"]
    /\ submit_run = [r \in Requests |-> [pc |-> "idle"]]
    /\ app = Serving
    /\ complete_run = [pc |-> "idle"]
    /\ result = NoCall

InitParse ==
    /\ response \in ReplyLines \cup FullReplies
    /\ parsed = NoCall
    /\ GenIdle
    /\ StoresIdle

\* the external model's reply grows by one line
AppendLine(line) ==
    /\ parsed = NoCall
    /\ NumLines(response) < MaxLines
    /\ response' = response \o << "\n" >> \o line
    /\ UNCHANGED << parsed, genIn, genOut >>
    /\ UNCHANGED storeVars

\* self._parse_questions_from_response(response.text)
Parse ==
    /\ parsed = NoCall
    /\ parsed' = [called |-> TRUE, raised |-> FALSE] @@ ParseRun(response)
    /\ UNCHANGED << response, genIn, genOut >>
    /\ UNCHANGED storeVars

NextParse ==
    \/ \E line \in ReplyLines : AppendLine(line)
    \/ Parse

SpecParse == InitParse /\ [][NextParse]_vars

\* C1: for every reply text (the empty string, whitespace-only text and text with
\* no question-like line included) _parse_questions_from_response returns a list of
\* exactly 3 strings, none of them empty.  (The operators are total on text, which
\* is how "never raises" shows: TLC evaluates the call on every reply.)
C1_ParserReturnsThreeNonEmpty ==
    parsed.called =>
        /\ Len(parsed.questions) = 3
        /\ \A i \in 1..Len(parsed.questions) : parsed.questions[i] # << >>

\* a whitespace-only reply has been parsed, and the result is the default list
C1_Witness ==
    /\ parsed.called
    /\ response # << >> /\ Strip(response) = << >>
    /\ parsed.questions = get_default_questions

\* the k-th smallest member of a set of line numbers
Nth(S, k) == CHOOSE i \in S : Cardinality({j \in S : j < i}) = k - 1

\* the text of a numbered line after its marker, trimmed
NumberedText(line) == Strip(StripNumberMarker(Strip(line)))

\* a line that starts with '<digits>.' or '<digits>)' and whose text after the marker
\* is longer than 10 characters
WellFormedNumbered(line) ==
    NumberMarkerLen(Strip(line)) > 0 /\ Len(NumberedText(line)) > 10

\* C11 as stated: if the reply holds at least 3 well-formed numbered lines, the
\* parser returns exactly the trimmed text of the first three of them, with the
\* numbering stripped, in their order of appearance.
C11_NumberedLinesReturned ==
    parsed.called =>
        LET lines == Split(response, "\n")
            W == {i \in 1..Len(lines) : WellFormedNumbered(lines[i])}
        IN  Cardinality(W) >= 3
            => parsed.questions = [k \in 1..3 |-> NumberedText(lines[Nth(W, k)])]

\* a numbered line whose text is still longer than 10 characters once the marker and
\* every bold label with its colon are removed
KeptNumbered(line) ==
    NumberMarkerLen(Strip(line)) > 0 /\ Len(StripBoldLabels(NumberedText(line))) > 10

\* a line the structured pass accepts
KeptStructured(line) ==
    /\ StartsWith(Strip(line), QuestionTextMarker)
    /\ Len(Strip(AfterFirstColon(Strip(line)))) > 10

\* C11 amended: if the reply holds fewer than 3 accepted '**Question Text**' lines
\* and at least 3 numbered lines whose text, with the marker and every bold label
\* with its colon removed, is longer than 10 characters, the parser returns exactly
\* that text of the first three such lines, in their order of appearance.
C11_KeptNumberedLinesReturned ==
    parsed.called =>
        LET lines == Split(response, "\n")
            S == {i \in 1..Len(lines) : KeptStructured(lines[i])}
            K == {i \in 1..Len(lines) : KeptNumbered(lines[i])}
        IN  (Cardinality(S) < 3 /\ Cardinality(K) >= 3)
            => parsed.questions
                   = [k \in 1..3 |-> StripBoldLabels(NumberedText(lines[Nth(K, k)]))]

\* a reply of four numbered lines was parsed: the line that is short without its
\* bold label was passed over and the bold label of the next one was removed
C11_Witness ==
    /\ parsed.called
    /\ NumLines(response) = 4
    /\ parsed.questions = << Chars("How did you test it?"),
                             Chars("What blocked you?"),
                             Chars("Which part was hardest?") >>
    /\ parsed.log = {"parsing", "numbered"}

\* the first n elements of a sequence, all of them if it has fewer
FirstN(seq, n) == SubSeq(seq, 1, IF Len(seq) < n THEN Len(seq) ELSE n)

\* the candidates of the pass that supplies the result: the structured-label pass
\* if it yields 3 or more, else the numbered-list pass if it yields 3 or more, else
\* the free-form pass
SupplyingPass(lines) ==
    IF Len(StructuredPass(lines)) >= 3 THEN StructuredPass(lines)
    ELSE IF Len(NumberedPass(lines)) >= 3 THEN NumberedPass(lines)
    ELSE PatternPass(lines, 1, << >>)

\* C27: the passes are tried in order and a later pass runs only when the one before
\* it yielded fewer than 3 candidates; the result starts with the first 3 (or fewer)
\* candidates of the pass that supplies it, and a candidate of a pass that yielded
\* fewer than 3 is in the result only if the supplying pass found it again
C27_PassesInOrder ==
    parsed.called =>
        LET lines == Split(response, "\n")
            supplied == FirstN(SupplyingPass(lines), 3)
        IN  /\ SubSeq(parsed.questions, 1, Len(supplied)) = supplied
            /\ \A i \in (Len(supplied) + 1)..Len(parsed.questions) :
                   parsed.questions[i] = get_default_questions[i]
            /\ ("numbered" \in parsed.log) = (Len(StructuredPass(lines)) < 3)
            /\ ("pattern" \in parsed.log)
                   = (Len(StructuredPass(lines)) < 3 /\ Len(NumberedPass(lines)) < 3)

\* the numbered-list pass supplied the result after the structured-label pass had
\* found one candidate, which is not in the result
C27_Witness ==
    /\ parsed.called
    /\ Len(StructuredPass(Split(response, "\n"))) = 1
    /\ Len(NumberedPass(Split(response, "\n"))) = 3
    /\ parsed.log = {"parsing", "numbered"}
    /\ \A i \in 1..3 : parsed.questions[i] # Chars("What steps did you follow?")

\* C28: when the passes yield k < 3 questions the result is those k questions, in
\* order, followed by the first 3 - k default questions in the default list's
\* order; when they yield more than 3 the result is the first 3
C28_FilledWithFirstDefaults ==
    parsed.called =>
        LET yielded == SupplyingPass(Split(response, "\n"))
        IN  parsed.questions
                = IF Len(yielded) >= 3 THEN SubSeq(yielded, 1, 3)
                  ELSE yielded \o SubSeq(get_default_questions, 1, 3 - Len(yielded))

(***************************************************************************)
(* Generator specification: generate_followup_questions is called on       *)
(* stores, submissions, replies and environment failures drawn from the    *)
(* sets below.  The call time is 09:00 on 2024-01-11.                      *)
(***************************************************************************)
\* a work-update document as create_work_update writes it (main.py 751-755, 779-783)
WorkUpdateDoc(id, user, work_status, description, challenges, plans, t, status, done) ==
    [_id |-> id, userId |-> user, work_status |-> work_status,
     description |-> description, challenges |-> challenges, plans |-> plans,
     submittedAt |-> DateTime(t), update_date |-> FormatDate(DateOf(t)),
     status |-> status, followupCompleted |-> done]

GenNow == 10 * HoursPerDay + 9

\* permanent documents: yesterday's completed update, a leave two days ago (no
\* description), an update without plans, one older than a week, another user's,
\* and a legacy document whose submittedAt is a string
GenPermanent ==
    { WorkUpdateDoc(1, "u1", "working", Chars("Built the login page"), None,
                    Chars("deploy service"), GenNow - 16, "completed", TRUE),
      WorkUpdateDoc(2, "u1", "on_leave", None, None, None, GenNow - 40, "completed", TRUE),
      WorkUpdateDoc(3, "u1", "working", Chars("Fixed two bugs"), Chars(" flaky tests "),
                    None, GenNow - 64, "completed", TRUE),
      WorkUpdateDoc(4, "u1", "on_leave", None, None, None, GenNow - 9 * HoursPerDay,
                    "completed", TRUE),
      WorkUpdateDoc(5, "u2", "on_leave", None, None, None, GenNow - 16, "completed", TRUE),
      [_id |-> 6, userId |-> "u1", description |-> Chars("Imported record"),
       submittedAt |-> StrValue(Chars("2024-01-09"))] }

GenTemp ==
    { WorkUpdateDoc(7, "u1", "working", Chars("Wrote the report"), None, None,
                    GenNow - 1, "pending_followup", FALSE) }

\* work_update_data: absent, as start_followup_session builds it, and with a None
\* description
GenWorkData ==
    { << >>,
      [description |-> Chars("Wrote the report"), challenges |-> None, plans |-> None,
       user_id |-> "u1"],
      [description |-> Chars("Wrote the report"), challenges |-> Chars("slow build"),
       plans |-> Chars("ship it"), user_id |-> "u1"],
      [description |-> None, challenges |-> None, plans |-> None, user_id |-> "u1"] }

GenReplies ==
    { None,
      << >>,
      Chars(" \n\t "),
      Chars("1. How did you test it?\n2. What blocked you?\n3. What's next?"),
      Chars("Sure! Here is one:\nWhich part took the longest?") }

Faults == {"none", "store_read", "model_call"}

InitGen ==
    /\ response = << >>
    /\ parsed = NoCall
    /\ GenIdle
    /\ StoresIdle

\* await ai_service.generate_followup_questions(user_id, work_update_data)
Generate(user_id, work_update_data, work_updates_collection, temp_updates_collection, fault, reply) ==
    /\ genIn = NoCall
    /\ response' = reply
    /\ genIn' = [called |-> TRUE, user_id |-> user_id, work_update_data |-> work_update_data,
                 work_updates_collection |-> work_updates_collection,
                 temp_updates_collection |-> temp_updates_collection,
                 fault |-> fault]
    /\ genOut' = [called |-> TRUE] @@
                 generate_followup_questions(user_id, work_update_data, work_updates_collection,
                                             temp_updates_collection, GenNow, fault, reply)
    /\ UNCHANGED parsed
    /\ UNCHANGED storeVars

NextGen ==
    \E user_id \in {"u1", "u2"}, work_update_data \in GenWorkData,
       work_updates_collection \in SUBSET GenPermanent, temp_updates_collection \in SUBSET GenTemp,
       fault \in Faults, reply \in GenReplies :
        Generate(user_id, work_update_data, work_updates_collection, temp_updates_collection, fault, reply)

SpecGen == InitGen /\ [][NextGen]_vars

\* the try block of the last call raised (a store read, the history filtering, the
\* context building or the model call threw)
GenRaised ==
    GenerateTry(genIn.user_id, genIn.work_update_data, genIn.work_updates_collection,
                genIn.temp_updates_collection, GenNow, genIn.fault, response).raised

\* the model's reply was None, empty or whitespace-only
BlankReply == response = None \/ Strip(response) = << >>

ParserTags == {"parsing", "numbered", "pattern", "trimmed", "filling"}

\* C2: generate_followup_questions never raises to its caller and always returns
\* exactly 3 questions; whenever a store read, the history filtering, the context
\* building or the model call throws, or the model returns empty text, the result is
\* the fixed default 3-question list.
C2_GenerateNeverRaises ==
    genOut.called =>
        /\ ~genOut.raised
        /\ Len(genOut.questions) = 3
        /\ (GenRaised \/ BlankReply) => genOut.questions = get_default_questions

\* the history block threw on a leave record (None description) although the store
\* read and the model call worked and the reply held three questions
C2_Witness ==
    /\ genOut.called
    /\ genIn.fault = "none" /\ ~BlankReply
    /\ GenRaised
    /\ ~build_current_work_context(genIn.work_update_data).raised
    /\ genOut.log = {"error"}
    /\ genOut.questions = get_default_questions

\* C10: if the model reply is empty or whitespace-only, question generation returns
\* the fixed default 3-question list, unchanged and in its fixed order, and runs no
\* parsing pass.
C10_BlankReplyGivesDefaults ==
    (genOut.called /\ BlankReply) =>
        /\ genOut.questions = get_default_questions
        /\ genOut.log \cap ParserTags = {}

\* a whitespace-only reply arrived with nothing else failing
C10_Witness ==
    /\ genOut.called
    /\ response = Chars(" \n\t ")
    /\ genOut.log = {"empty_reply"}
    /\ genOut.questions = get_default_questions

(***************************************************************************)
(* Plans specification: _extract_yesterday_plans_from_recent_docs is       *)
(* called on recent-record lists as generate_followup_questions builds     *)
(* them: every record has a datetime timestamp and the list is sorted      *)
(* newest first.  The call time is 09:00 on 2024-01-11.                    *)
(***************************************************************************)
MaxDocs == 3

\* submission times: today, yesterday, the day before
PlanTimes == {GenNow - 1, GenNow - 16, GenNow - 40}

\* the plans field as create_work_update stores it: None when the request gave none
PlanValues == {None, Chars("  "), Chars(" deploy service "), Chars("write docs")}

\* the records of the list; the last one is a record stored without a plans field
PlanDocs ==
    { WorkUpdateDoc(1, "u1", "working", Chars("Fixed two bugs"), None, plans, t,
                    "completed", TRUE) : plans \in PlanValues, t \in PlanTimes }
    \cup { [_id |-> 2, userId |-> "u1", description |-> Chars("Imported record"),
            submittedAt |-> DateTime(GenNow - 16)] }

InitPlans ==
    /\ response = << >>
    /\ parsed = NoCall
    /\ genIn = [called |-> FALSE, recent_docs |-> << >>]
    /\ genOut = NoCall
    /\ StoresIdle

\* recent_docs grows by one record, newest first (the sort of line 58)
AddRecentDoc(doc) ==
    /\ ~genIn.called
    /\ Len(genIn.recent_docs) < MaxDocs
    /\ \A i \in 1..Len(genIn.recent_docs) : genIn.recent_docs[i].submittedAt.t >= doc.submittedAt.t
    /\ genIn' = [genIn EXCEPT !.recent_docs = Append(@, doc)]
    /\ UNCHANGED << response, parsed, genOut >>
    /\ UNCHANGED storeVars

\* self._extract_yesterday_plans_from_recent_docs(recent_docs)
ExtractPlans ==
    /\ ~genIn.called
    /\ genIn' = [genIn EXCEPT !.called = TRUE]
    /\ genOut' = [called |-> TRUE]
                 @@ extract_yesterday_plans_from_recent_docs(genIn.recent_docs, GenNow)
    /\ UNCHANGED << response, parsed >>
    /\ UNCHANGED storeVars

NextPlans ==
    \/ \E doc \in PlanDocs : AddRecentDoc(doc)
    \/ ExtractPlans

SpecPlans == InitPlans /\ [][NextPlans]_vars

\* the record has a plans text that is not blank
NonBlankPlans(doc) ==
    "plans" \in DOMAIN doc /\ doc.plans # None /\ Strip(doc.plans) # << >>

\* the positions of the records dated `day` whose plans are not blank
PlansDated(docs, day) ==
    {i \in 1..Len(docs) : DateOf(docs[i].submittedAt.t) = day /\ NonBlankPlans(docs[i])}

\* the positions of the records not dated `day` whose plans are not blank
PlansNotDated(docs, day) ==
    {i \in 1..Len(docs) : DateOf(docs[i].submittedAt.t) # day /\ NonBlankPlans(docs[i])}

\* C12: if some record of the list is dated exactly yesterday and has non-blank
\* plans, the lookup returns the (trimmed) plans of the first such record in list
\* order, whatever the plans of the other records.
C12_YesterdayPlansPreferred ==
    genOut.called =>
        LET docs == genIn.recent_docs
            Y == PlansDated(docs, DateOf(GenNow) - 1)
        IN  Y # {} => (~genOut.raised /\ genOut.val = Strip(docs[SetMin(Y)].plans))

\* C13: if no record dated yesterday has non-blank plans, the lookup returns the
\* (trimmed) non-blank plans of the first record in list order that is not dated
\* today, and "No previous plans found" if there is none (the list is empty or every
\* record not dated today has its plans absent, null or blank); plans of a record
\* dated today are never returned.
C13_FallbackPlans ==
    genOut.called =>
        LET docs == genIn.recent_docs
            Y == PlansDated(docs, DateOf(GenNow) - 1)
            R == PlansNotDated(docs, DateOf(GenNow))
        IN  Y = {} => /\ ~genOut.raised
                      /\ genOut.val = IF R = {} THEN NoPlansFound
                                      ELSE Strip(docs[SetMin(R)].plans)

(***************************************************************************)
(* Two-Stage Update Store (database.py).  A collection is a set of         *)
(* documents; _id is the ObjectId the store assigned, a number, and        *)
(* str(ObjectId) its 24-character text.                                    *)
(***************************************************************************)
ObjectIdPrefix == Chars("65a0f3c2b1d4e5f6a7b8c9")

\* str(ObjectId): 24 hexadecimal characters
ObjectIdStr(n) == ObjectIdPrefix \o TwoDigits(n)

DigitValue(c) == CHOOSE v \in 0..9 : Chars("0123456789")[v + 1] = c

\* bson accepts the text as an ObjectId (otherwise ObjectId(text) raises InvalidId)
IsObjectIdStr(text) ==
    /\ Len(text) = Len(ObjectIdPrefix) + 2
    /\ SubSeq(text, 1, Len(ObjectIdPrefix)) = ObjectIdPrefix
    /\ text[Len(text) - 1] \in Digits /\ text[Len(text)] \in Digits

\* ObjectId(text), for a text that IsObjectIdStr accepts
ObjectId(text) == 10 * DigitValue(text[Len(text) - 1]) + DigitValue(text[Len(text)])

WithId(doc, id) == [_id |-> id] @@ doc

\* the document without its _id (del permanent_update["_id"])
WithoutId(doc) == [k \in DOMAIN doc \ {"_id"} |-> doc[k]]

\* dict.update / $set: the fields of `changes` win
Updated(doc, changes) == changes @@ doc

\* collection.find_one({"userId": ..., "update_date": ...}): the set of matches
FindByUserDate(collection, user_id, update_date) ==
    {d \in collection : d.userId = user_id /\ d.update_date = update_date}

\* find_one returns the first match in natural order
FirstOf(docs) == ToList(docs)[1]

\* collection.find_one({"_id": id})
FindById(collection, id) == {d \in collection : d._id = id}

\* a replace_one whose filter matches nothing: the collection stays as it is
replace_one_matches_nothing(collection, id, doc) == collection

\* collection.replace_one({"_id": id}, doc): the document keeps its _id
ReplaceOne(collection, id, doc) ==
    {d \in collection : d._id # id} \cup {WithId(doc, id) : d \in FindById(collection, id)}

\* create_temp_work_update with the existence check dropped: always inserts
create_temp_always_inserts(temp_collection, work_update_data, new_id) ==
    [collection |-> temp_collection \cup {WithId(work_update_data, new_id)},
     id |-> ObjectIdStr(new_id), inserted |-> TRUE]

\* create_temp_work_update: upsert by (userId, update_date); new_id is the ObjectId
\* an insert would get
create_temp_work_update(temp_collection, work_update_data, new_id) ==
    LET existing_temp == FindByUserDate(temp_collection, work_update_data.userId,
                                        work_update_data.update_date)
    IN  IF existing_temp # {}
        THEN [collection |-> ReplaceOne(temp_collection, FirstOf(existing_temp)._id,
                                        work_update_data),
              id |-> ObjectIdStr(FirstOf(existing_temp)._id), inserted |-> FALSE]
        ELSE [collection |-> temp_collection \cup {WithId(work_update_data, new_id)},
              id |-> ObjectIdStr(new_id), inserted |-> TRUE]

\* get_temp_work_update: the matching documents; an invalid id is caught and gives None
get_temp_work_update(temp_collection, temp_id) ==
    IF IsObjectIdStr(temp_id) THEN FindById(temp_collection, ObjectId(temp_id)) ELSE {}

\* move_temp_to_permanent without the final delete of the temporary record
move_keeps_temp(temp_collection, permanent_collection, temp_id, additional_data, now, new_id) ==
    IF ~IsObjectIdStr(temp_id) THEN Raise("InvalidId")
    ELSE IF FindById(temp_collection, ObjectId(temp_id)) = {} THEN Raise("ValueError")
    ELSE
        LET temp_update == FirstOf(FindById(temp_collection, ObjectId(temp_id)))
            permanent_update ==
                Updated(Updated(WithoutId(temp_update), additional_data),
                        [followupCompleted |-> TRUE, status |-> "completed",
                         completedAt |-> DateTime(now)])
        IN  Return([temp |-> temp_collection,
                    permanent |-> permanent_collection
                                  \cup {WithId(permanent_update, new_id)},
                    id |-> ObjectIdStr(new_id), inserted |-> TRUE])

\* move_temp_to_permanent without setting the completion status (lines 454-456)
move_keeps_status(temp_collection, permanent_collection, temp_id, additional_data, now, new_id) ==
    IF ~IsObjectIdStr(temp_id) THEN Raise("InvalidId")
    ELSE IF FindById(temp_collection, ObjectId(temp_id)) = {} THEN Raise("ValueError")
    ELSE
        LET temp_update == FirstOf(FindById(temp_collection, ObjectId(temp_id)))
            permanent_update == Updated(WithoutId(temp_update), additional_data)
            existing_permanent == FindByUserDate(permanent_collection,
                                                 permanent_update.userId,
                                                 permanent_update.update_date)
            remaining == {d \in temp_collection : d._id # ObjectId(temp_id)}
        IN  IF existing_permanent # {}
            THEN Return([temp |-> remaining,
                         permanent |-> ReplaceOne(permanent_collection,
                                                  FirstOf(existing_permanent)._id,
                                                  permanent_update),
                         id |-> ObjectIdStr(FirstOf(existing_permanent)._id),
                         inserted |-> FALSE])
            ELSE Return([temp |-> remaining,
                         permanent |-> permanent_collection
                                       \cup {WithId(permanent_update, new_id)},
                         id |-> ObjectIdStr(new_id), inserted |-> TRUE])

\* move_temp_to_permanent: read the temporary record, write it to the permanent
\* collection by (userId, update_date), delete the temporary record
move_temp_to_permanent(temp_collection, permanent_collection, temp_id, additional_data, now, new_id) ==
    IF ~IsObjectIdStr(temp_id) THEN Raise("InvalidId")
    ELSE IF FindById(temp_collection, ObjectId(temp_id)) = {} THEN Raise("ValueError")
    ELSE
        LET temp_update == FirstOf(FindById(temp_collection, ObjectId(temp_id)))
            permanent_update ==
                Updated(Updated(WithoutId(temp_update), additional_data),
                        [followupCompleted |-> TRUE, status |-> "completed",
                         completedAt |-> DateTime(now)])
            existing_permanent == FindByUserDate(permanent_collection,
                                                 permanent_update.userId,
                                                 permanent_update.update_date)
            remaining == {d \in temp_collection : d._id # ObjectId(temp_id)}
        IN  IF existing_permanent # {}
            THEN Return([temp |-> remaining,
                         permanent |-> ReplaceOne(permanent_collection,
                                                  FirstOf(existing_permanent)._id,
                                                  permanent_update),
                         id |-> ObjectIdStr(FirstOf(existing_permanent)._id),
                         inserted |-> FALSE])
            ELSE Return([temp |-> remaining,
                         permanent |-> permanent_collection
                                       \cup {WithId(permanent_update, new_id)},
                         id |-> ObjectIdStr(new_id), inserted |-> TRUE])

\* a delete_one that fails when no document matches
delete_one_must_match(collection, id) ==
    IF FindById(collection, id) = {} THEN Raise("Exception")
    ELSE Return({d \in collection : d._id # id})

\* collection.delete_one({"_id": id}): deleting a document that is not there deletes
\* nothing and is no error
delete_one(collection, id) == Return({d \in collection : d._id # id})

\* the cleanup's find with a filter that matches nothing
abandoned_none(temp_collection, hours_old, now) == {}

\* the documents cleanup_abandoned_temp_updates selects (the find of lines 229-232)
Abandoned(temp_collection, hours_old, now) ==
    {d \in temp_collection :
        d.submittedAt.t < now - hours_old /\ d.status = "pending_followup"}

\* the cleanup without its delete_many on the sessions
no_sessions_of(sessions, temp_id) == {}

\* the sessions the delete_many of lines 241-246 removes for one temporary id
SessionsOf(sessions, temp_id) ==
    {x \in sessions :
        \/ "tempWorkUpdateId" \in DOMAIN x /\ x.tempWorkUpdateId = temp_id
        \/ "workUpdateId" \in DOMAIN x /\ x.workUpdateId = temp_id}

\* cleanup_abandoned_temp_updates
cleanup_abandoned_temp_updates(temp_collection, sessions, hours_old, now) ==
    LET abandoned == Abandoned(temp_collection, hours_old, now)
        dropped == UNION {SessionsOf(sessions, ObjectIdStr(d._id)) : d \in abandoned}
    IN  [temp |-> temp_collection \ abandoned,
         sessions |-> sessions \ dropped,
         deleted_temp_updates |-> Cardinality(abandoned),
         deleted_sessions |-> Cardinality(dropped)]

\* the description test without its strip: no text counts as blank
never_blank(text) == FALSE

(***************************************************************************)
(* Routes of main.py and the session methods of AIFollowupService.  Each   *)
(* operator takes the collections and the time of the call and gives the   *)
(* response with the collections as the call leaves them.                  *)
(***************************************************************************)
\* not text.strip()
Blank(text) == Strip(text) = << >>

\* create_work_update without its on_leave branch: every submission goes to the
\* temporary collection
create_all_temporary(work_update, temp_collection, permanent_collection, now, new_id) ==
    LET created == create_temp_work_update(
                       temp_collection,
                       Updated(work_update,
                               [update_date |-> FormatDate(DateOf(now)),
                                submittedAt |-> DateTime(now),
                                status |-> "pending_followup", followupCompleted |-> FALSE]),
                       new_id)
    IN  [status_code |-> 200, temp |-> created.collection,
         permanent |-> permanent_collection, id |-> created.id,
         inserted |-> created.inserted]

\* create_work_update (POST /api/work-updates)
create_work_update(work_update, temp_collection, permanent_collection, now, new_id) ==
    LET today_date == FormatDate(DateOf(now))
        existing_update == FindByUserDate(permanent_collection, work_update.userId, today_date)
        leave_dict == Updated(work_update,
                              [update_date |-> today_date, submittedAt |-> DateTime(now),
                               followupCompleted |-> TRUE, status |-> "completed"])
        update_dict == Updated(work_update,
                               [update_date |-> today_date, submittedAt |-> DateTime(now),
                                status |-> "pending_followup", followupCompleted |-> FALSE])
        created == create_temp_work_update(temp_collection, update_dict, new_id)
    IN  IF /\ work_update.work_status = "working"
           /\ (~Truthy(work_update.description) \/ Blank(work_update.description))
        THEN [status_code |-> 400, temp |-> temp_collection,
              permanent |-> permanent_collection, id |-> << >>, inserted |-> FALSE]
        ELSE IF work_update.work_status = "on_leave"
        THEN (IF existing_update # {}
              THEN [status_code |-> 200, temp |-> temp_collection,
                    permanent |-> ReplaceOne(permanent_collection,
                                             FirstOf(existing_update)._id, leave_dict),
                    id |-> ObjectIdStr(FirstOf(existing_update)._id), inserted |-> FALSE]
              ELSE [status_code |-> 200, temp |-> temp_collection,
                    permanent |-> permanent_collection \cup {WithId(leave_dict, new_id)},
                    id |-> ObjectIdStr(new_id), inserted |-> TRUE])
        ELSE [status_code |-> 200, temp |-> created.collection,
              permanent |-> permanent_collection, id |-> created.id,
              inserted |-> created.inserted]

\* f"{user_id}_session_{today_date}"
SessionDateId(user_id, today_date) == Chars(user_id) \o Chars("_session_") \o today_date

\* [""] * len(questions)
EmptyAnswers(questions) == [i \in 1..Len(questions) |-> << >>]

\* an upsert that merges the new fields into the stored document ($set)
upsert_merges(sessions, doc) ==
    {x \in sessions : x._id # doc._id}
    \cup (IF FindById(sessions, doc._id) = {} THEN {doc}
          ELSE {Updated(x, doc) : x \in FindById(sessions, doc._id)})

\* collection.replace_one({"_id": id}, doc, upsert=True) on the sessions
Upsert(sessions, doc) == {x \in sessions : x._id # doc._id} \cup {doc}

\* find_one by the unique _id: the document of a non-empty result
TheOne(found) == CHOOSE d \in found : TRUE

\* the fields both creation paths give a session (main.py 837-847, ai_service.py 356-364)
new_session(session_id, user_id, questions, now) ==
    [_id |-> session_id, userId |-> user_id, questions |-> questions,
     answers |-> EmptyAnswers(questions), status |-> "pending",
     createdAt |-> DateTime(now), completedAt |-> NoneValue]

\* the "if not temp_work_update" test with the lookup's result ignored
never_missing(found) == FALSE

\* if not temp_work_update / if not session: the lookup gave None
Missing(found) == found = {}

\* start_followup_session (POST /api/followups/start)
start_followup_session(temp_work_update_id, user_id, temp_collection, permanent_collection, sessions, now, fault, reply) ==
    LET temp_work_update == get_temp_work_update(temp_collection, temp_work_update_id)
        today_date == FormatDate(DateOf(now))
        session_date_id == SessionDateId(user_id, today_date)
        ai_input_data == [description |-> Get(FirstOf(temp_work_update), "description", None),
                          challenges |-> Get(FirstOf(temp_work_update), "challenges", None),
                          plans |-> Get(FirstOf(temp_work_update), "plans", None),
                          user_id |-> user_id]
        questions == generate_followup_questions(user_id, ai_input_data, permanent_collection,
                                                 temp_collection, now, fault, reply).questions
        session_doc == Updated(new_session(session_date_id, user_id, questions, now),
                               [tempWorkUpdateId |-> temp_work_update_id,
                                session_date |-> today_date])
    IN  IF Missing(temp_work_update)
        THEN [status_code |-> 404, sessions |-> sessions, id |-> << >>]
        ELSE IF temp_work_update = {}   \* None.get(...): AttributeError, answered 500
        THEN [status_code |-> 500, sessions |-> sessions, id |-> << >>]
        ELSE [status_code |-> 200, sessions |-> Upsert(sessions, session_doc),
              id |-> session_date_id]

\* the two validations at the head of complete_followup_session
AnswersRejected(answers) ==
    \/ answers = << >> \/ Len(answers) # 3
    \/ \E i \in 1..Len(answers) : Blank(answers[i])

\* the $set document without the status change
update_keeps_status(answers, now) == [answers |-> answers, completedAt |-> DateTime(now)]

\* session_update / update_doc: the fields completion sets
session_update(answers, now) ==
    [answers |-> answers, status |-> "completed", completedAt |-> DateTime(now)]

\* collection.update_one({"_id": id}, {"$set": changes}) on the sessions
UpdateOne(sessions, id, changes) ==
    {x \in sessions : x._id # id} \cup {Updated(x, changes) : x \in FindById(sessions, id)}

\* complete_followup_session (PUT /api/followup/{session_id}/complete)
complete_followup_session(session_id, answers, temp_collection, permanent_collection, sessions, now, new_id) ==
    LET session == FindById(sessions, session_id)
        unchanged(code) == [status_code |-> code, temp |-> temp_collection,
                            permanent |-> permanent_collection, sessions |-> sessions,
                            id |-> << >>, inserted |-> FALSE]
    IN  IF AnswersRejected(answers) THEN unchanged(400)
        ELSE IF Missing(session) THEN unchanged(404)
        \* session["tempWorkUpdateId"] on None or without the key: answered 500
        ELSE IF session = {} \/ "tempWorkUpdateId" \notin DOMAIN TheOne(session)
        THEN unchanged(500)
        ELSE
            LET temp_id == TheOne(session).tempWorkUpdateId
                temp_work_update == get_temp_work_update(temp_collection, temp_id)
                completed == UpdateOne(sessions, session_id, session_update(answers, now))
                moved == move_temp_to_permanent(temp_collection, permanent_collection,
                                                temp_id, [completedAt |-> DateTime(now)],
                                                now, new_id)
            IN  IF Missing(temp_work_update) THEN unchanged(404)
                ELSE IF moved.raised
                THEN [status_code |-> 500, temp |-> temp_collection,
                      permanent |-> permanent_collection, sessions |-> completed,
                      id |-> << >>, inserted |-> FALSE]
                ELSE [status_code |-> 200, temp |-> moved.val.temp,
                      permanent |-> moved.val.permanent,
                      sessions |-> UpdateOne(completed, session_id,
                                             [workUpdateId |-> moved.val.id]),
                      id |-> moved.val.id, inserted |-> moved.val.inserted]

\* uuid.uuid4().hex, the n-th one drawn
UuidHex(n) == Chars("9f1c2d3e4a5b6c7d8e9f0a1b2c3d4e") \o TwoDigits(n)

\* the unique index on (userId, session_date) left out of create_indexes
no_session_index(sessions, doc) == FALSE

\* the unique index on (userId, session_date): a document without session_date is
\* indexed under null, so a second one of the same user is a duplicate key
DuplicateSessionKey(sessions, doc) ==
    \E x \in sessions :
        /\ x._id # doc._id
        /\ x.userId = doc.userId
        /\ Get(x, "session_date", None) = Get(doc, "session_date", None)

\* AIFollowupService.save_followup_session
save_followup_session(user_id, questions, sessions, now, uuid) ==
    LET session_id == Chars(user_id) \o Chars("_") \o UuidHex(uuid)
        session_doc == new_session(session_id, user_id, questions, now)
    IN  IF DuplicateSessionKey(sessions, session_doc) THEN Raise("Exception")
        ELSE Return([sessions |-> Upsert(sessions, session_doc), id |-> session_id])

\* AIFollowupService.update_followup_answers: modified_count is 0 when no document
\* has the id, and also when the $set changes nothing
update_followup_answers(session_id, answers, sessions, now) ==
    LET updated == UpdateOne(sessions, session_id, session_update(answers, now))
    IN  IF updated = sessions THEN Raise("Exception")
        ELSE Return([sessions |-> updated])

\* the cursor of get_pending_followup_session without its sort: any pending session
\* can come first
pending_unsorted(pending) == pending

\* .sort("createdAt", DESCENDING).limit(1): the documents that can come first (the
\* order of documents with equal createdAt is the store's choice)
NewestFirst(pending) ==
    {s \in pending : \A x \in pending : x.createdAt.t <= s.createdAt.t}

\* the value returned when no session is returned
NoSession == [found |-> FALSE]

\* AIFollowupService.get_pending_followup_session: the values the call can return;
\* `fault` is a failure of the store read, which the except clause turns into None
get_pending_followup_session(user_id, sessions, fault) ==
    LET pending == {s \in sessions : s.userId = user_id /\ s.status = "pending"}
    IN  IF fault \/ pending = {} THEN {NoSession}
        ELSE {[found |-> TRUE, session |-> [sessionId |-> s._id] @@ s] :
                  s \in NewestFirst(pending)}

(***************************************************************************)
(* Store specification: work updates are submitted through                 *)
(* create_work_update, temporary records are promoted by direct calls of   *)
(* move_temp_to_permanent, and time passes.                                *)
(***************************************************************************)
\* requests and store events in one behaviour
MaxCalls == 5

\* the last hour the clock reaches
MaxClock == 48

\* hours between two requests
TickHours == HoursPerDay

Users == {"u1", "u2"}

\* request bodies of POST /api/work-updates
WorkUpdateCreate(user, work_status, description, challenges, plans) ==
    [userId |-> user, work_status |-> work_status, description |-> description,
     challenges |-> challenges, plans |-> plans]

Submissions ==
    { WorkUpdateCreate(user, "working", Chars("Built the login page"), None,
                       Chars("deploy service")) : user \in Users }
    \cup { WorkUpdateCreate(user, "on_leave", None, None, None) : user \in Users }
    \cup { WorkUpdateCreate("u1", "working", Chars("Fixed two bugs"),
                            Chars(" flaky tests "), None),
           WorkUpdateCreate("u1", "working", Chars("  "), None, None),
           WorkUpdateCreate("u1", "working", None, None, None),
           WorkUpdateCreate("u1", "working", << >>, None, None),
           WorkUpdateCreate("u1", "on_leave", Chars("Sick day"), None, None) }

\* one more request or store event is served
Served == calls < MaxCalls /\ calls' = calls + 1

\* ids a caller may hold: every ObjectId assigned so far, the next one, and a text
\* that is no ObjectId
TempIdInputs == {ObjectIdStr(n) : n \in 1..next_id} \cup {Chars("not-an-id")}

InitStore ==
    /\ response = << >>
    /\ parsed = NoCall
    /\ GenIdle
    /\ StoresIdle

\* POST /api/work-updates
CreateWorkUpdate(work_update) ==
    \E out \in {create_work_update(work_update, temp_work_updates, work_updates,
                                  clock, next_id)} :
        /\ Served
        /\ temp_work_updates' = out.temp
        /\ work_updates' = out.permanent
        /\ next_id' = IF out.inserted THEN next_id + 1 ELSE next_id
        /\ result' = [called |-> TRUE, op |-> "create_work_update",
                      work_update |-> work_update, status_code |-> out.status_code,
                      id |-> out.id, inserted |-> out.inserted]
        /\ UNCHANGED << clock, followup_sessions, next_uuid >>
        /\ UNCHANGED << pureVars, cleanup_run, submit_run, app, complete_run >>

\* await move_temp_to_permanent(temp_id, {"completedAt": datetime.now()})
MoveTemp(temp_id) ==
    \E out \in {move_temp_to_permanent(temp_work_updates, work_updates, temp_id,
                                      [completedAt |-> DateTime(clock)], clock, next_id)} :
        /\ Served
        /\ temp_work_updates' = IF out.raised THEN temp_work_updates ELSE out.val.temp
        /\ work_updates' = IF out.raised THEN work_updates ELSE out.val.permanent
        /\ next_id' = IF ~out.raised /\ out.val.inserted THEN next_id + 1 ELSE next_id
        /\ result' = [called |-> TRUE, op |-> "move_temp_to_permanent",
                      temp_id |-> temp_id, raised |-> out.raised,
                      exc |-> IF out.raised THEN out.exc ELSE "",
                      id |-> IF out.raised THEN << >> ELSE out.val.id]
        /\ UNCHANGED << clock, followup_sessions, next_uuid >>
        /\ UNCHANGED << pureVars, cleanup_run, submit_run, app, complete_run >>

\* time passes between two requests
Tick ==
    /\ Served
    /\ clock + TickHours <= MaxClock
    /\ clock' = clock + TickHours
    /\ result' = [called |-> TRUE, op |-> "tick"]
    /\ UNCHANGED << temp_work_updates, work_updates, followup_sessions, next_id, next_uuid >>
    /\ UNCHANGED << pureVars, cleanup_run, submit_run, app, complete_run >>

NextStore ==
    \/ \E work_update \in Submissions : CreateWorkUpdate(work_update)
    \/ \E temp_id \in TempIdInputs : MoveTemp(temp_id)
    \/ Tick

SpecStore == InitStore /\ [][NextStore]_vars

\* the temporary record a successful working submission returned is in the store
CreatedTempIsStored ==
    (/\ result.called /\ result.op = "create_work_update"
     /\ result.status_code = 200 /\ result.work_update.work_status = "working")
    => \E d \in temp_work_updates :
           /\ ObjectIdStr(d._id) = result.id
           /\ d.userId = result.work_update.userId
           /\ d.update_date = FormatDate(DateOf(clock))

\* one call of move_temp_to_permanent: it promotes a record that exists and fails,
\* changing nothing, on an id that names no temporary record
MoveStep ==
    (/\ result'.called /\ result'.op = "move_temp_to_permanent"
     /\ IsObjectIdStr(result'.temp_id))
    => IF FindById(temp_work_updates, ObjectId(result'.temp_id)) # {}
       THEN LET d == TheOne(FindById(temp_work_updates, ObjectId(result'.temp_id)))
            IN  /\ ~result'.raised
                /\ FindById(temp_work_updates', d._id) = {}
                /\ FindByUserDate(temp_work_updates', d.userId, d.update_date) = {}
                /\ Cardinality(FindByUserDate(work_updates', d.userId, d.update_date)) = 1
                /\ \A p \in FindByUserDate(work_updates', d.userId, d.update_date) :
                       /\ ObjectIdStr(p._id) = result'.id
                       /\ p.description = d.description
                       /\ p.status = "completed" /\ p.followupCompleted
       ELSE /\ result'.raised /\ result'.exc = "ValueError"
            /\ UNCHANGED << temp_work_updates, work_updates >>

\* an id the temporary store has assigned and lost is never in the store again
TempIdsNotReused ==
    \A n \in 1..next_id :
        (n < next_id /\ FindById(temp_work_updates, n) = {})
        => FindById(temp_work_updates', n) = {}

\* C3: after create_temp_work_update for a (user, date), move_temp_to_permanent on
\* the returned id leaves zero temporary records and exactly one permanent record
\* for that (user, date); a second move_temp_to_permanent on the same temporary id
\* (the id is gone and never comes back) fails with the not-found ValueError and
\* changes neither the temporary nor the permanent store.
C3_PromotionMovesOnce ==
    /\ []CreatedTempIsStored
    /\ [][MoveStep]_vars
    /\ [][TempIdsNotReused]_vars

\* a second promotion of an id just failed: the id was assigned, no temporary or
\* permanent record carries it, and a promoted working update sits in the permanent
\* store with no temporary record left for its (user, date)
C3_Witness ==
    /\ result.called /\ result.op = "move_temp_to_permanent"
    /\ result.raised /\ result.exc = "ValueError"
    /\ ObjectId(result.temp_id) < next_id
    /\ FindById(temp_work_updates, ObjectId(result.temp_id)) = {}
    /\ FindById(work_updates, ObjectId(result.temp_id)) = {}
    /\ \E p \in work_updates :
           /\ p.work_status = "working"
           /\ FindByUserDate(temp_work_updates, p.userId, p.update_date) = {}

\* no two records of the collection share a (userId, update_date)
OnePerUserDate(collection) ==
    \A d1 \in collection : \A d2 \in collection :
        (d1.userId = d2.userId /\ d1.update_date = d2.update_date) => d1 = d2

\* one accepted submission: afterwards its area holds exactly one record for the
\* (user, date), with the submitted content and the returned id, and a record that
\* was there before had that same id
CreateStep ==
    (/\ result'.called /\ result'.op = "create_work_update"
     /\ result'.status_code = 200)
    => LET w == result'.work_update
           today == FormatDate(DateOf(clock))
           working == w.work_status = "working"
           before == IF working THEN temp_work_updates ELSE work_updates
           after == IF working THEN temp_work_updates' ELSE work_updates'
       IN  /\ Cardinality(FindByUserDate(after, w.userId, today)) = 1
           /\ \A d \in FindByUserDate(after, w.userId, today) :
                  /\ ObjectIdStr(d._id) = result'.id
                  /\ d.description = w.description /\ d.challenges = w.challenges
                  /\ d.plans = w.plans /\ d.work_status = w.work_status
                  /\ d.submittedAt = DateTime(clock)
           /\ \A e \in FindByUserDate(before, w.userId, today) :
                  ObjectIdStr(e._id) = result'.id
           /\ Cardinality(after) = Cardinality(before)
                  + (IF FindByUserDate(before, w.userId, today) = {} THEN 1 ELSE 0)

\* C4: creating a record twice for the same (user, date), a temporary one through
\* create_temp_work_update or a permanent one through a leave submission, overwrites:
\* exactly one record for the (user, date) is in that area, it holds the second
\* call's content, and the call returns the id the record already had; and in every
\* state reached by creates and promotions neither area holds two records for one
\* (user, date).
C4_CreateOverwrites ==
    /\ [](OnePerUserDate(temp_work_updates) /\ OnePerUserDate(work_updates))
    /\ [][CreateStep]_vars

\* a second working submission of the day replaced the first: nothing was inserted,
\* and the one temporary record of the (user, date) holds the second content while a
\* second user's record is beside it
C4_Witness ==
    /\ result.called /\ result.op = "create_work_update"
    /\ result.status_code = 200 /\ ~result.inserted
    /\ result.work_update.description = Chars("Fixed two bugs")
    /\ \E d \in temp_work_updates :
           /\ ObjectIdStr(d._id) = result.id /\ d.description = Chars("Fixed two bugs")
           /\ FindByUserDate(temp_work_updates, d.userId, d.update_date) = {d}
    /\ Cardinality(temp_work_updates) = 2

\* one submission: a working one without a usable description, or a leave
DescriptionStep ==
    (result'.called /\ result'.op = "create_work_update")
    => LET w == result'.work_update
       IN  /\ (w.work_status = "working"
                /\ (w.description = None \/ Strip(w.description) = << >>))
               => /\ result'.status_code = 400
                  /\ UNCHANGED << temp_work_updates, work_updates, followup_sessions,
                                  next_id >>
           /\ w.work_status = "on_leave" => result'.status_code = 200

\* C17: a working submission whose description is absent, empty or whitespace-only
\* is rejected before any store is modified (no temporary record is created or
\* replaced); a leave submission is accepted without a description.
C17_BlankDescriptionRejected == [][DescriptionStep]_vars

\* a working submission with a whitespace-only description was rejected while the
\* user's temporary record of the day, submitted before, is still stored unchanged
C17_Witness ==
    /\ result.called /\ result.op = "create_work_update"
    /\ result.status_code = 400
    /\ result.work_update.description = Chars("  ")
    /\ \E d \in temp_work_updates :
           /\ d.userId = result.work_update.userId
           /\ d.update_date = FormatDate(DateOf(clock))
           /\ d.description = Chars("Built the login page")

\* one promotion of a temporary record d whose (user, date) already has a permanent
\* record e: e's content becomes that of d, completed, under e's id, which is
\* returned; no record is added and every other permanent record stays as it was
OverrideStep ==
    (/\ result'.called /\ result'.op = "move_temp_to_permanent"
     /\ calls' = calls + 1
     /\ IsObjectIdStr(result'.temp_id)
     /\ FindById(temp_work_updates, ObjectId(result'.temp_id)) # {})
    => LET d == TheOne(FindById(temp_work_updates, ObjectId(result'.temp_id)))
           existing == FindByUserDate(work_updates, d.userId, d.update_date)
       IN  existing # {} =>
               LET e == TheOne(existing)
                   others == work_updates \ {e}
               IN  /\ ~result'.raised
                   /\ result'.id = ObjectIdStr(e._id)
                   /\ work_updates' \ others
                          = {Updated(WithId(d, e._id),
                                     [status |-> "completed", followupCompleted |-> TRUE,
                                      completedAt |-> DateTime(clock)])}
                   /\ others \subseteq work_updates'
                   /\ Cardinality(work_updates') = Cardinality(work_updates)
                   /\ next_id' = next_id

\* C30: if a permanent record already exists for the temporary record's (user,
\* date), promotion replaces that record's content with the promoted update
\* (status completed, followupCompleted true, the temporary record's description,
\* challenges, plans and submission time), keeps and returns the existing record's
\* id, and leaves the permanent records of every other (user, date) unchanged
C30_PromotionOverridesSameDay == [][OverrideStep]_vars

\* a working update was promoted over the leave record of the same user and day:
\* the permanent record has the leave record's id, older than the temporary id, and
\* the working update's content, and another user's record is still there
C30_Witness ==
    /\ result.called /\ result.op = "move_temp_to_permanent" /\ ~result.raised
    /\ ObjectId(result.id) < ObjectId(result.temp_id)
    /\ \E p \in work_updates :
           /\ ObjectIdStr(p._id) = result.id
           /\ p.work_status = "working" /\ p.status = "completed"
           /\ p.description = Chars("Built the login page")
    /\ \E q \in work_updates : q.userId = "u2" /\ q.work_status = "on_leave"
    /\ temp_work_updates = {}

(***************************************************************************)
(* Application specification: the routes of main.py, the store's own       *)
(* expiry of temporary records, the cleanup, and time.                     *)
(***************************************************************************)
\* replies of the external model to a start-follow-up request
StartReplies ==
    { << >>,
      Chars("1. How did you test it?\n2. What blocked you?\n3. What's next?") }

\* bodies of PUT /api/followup/{session_id}/complete
AnswerLists ==
    { << Chars("unit tests"), Chars("none"), Chars("deploy") >>,
      << Chars("unit tests"), Chars("none") >>,
      << Chars("unit tests"), Chars(" "), Chars("deploy") >> }

\* the submissions of one user: two working updates, a leave, a blank description
RouteSubmissions ==
    { WorkUpdateCreate("u1", "working", Chars("Built the login page"), None,
                       Chars("deploy service")),
      WorkUpdateCreate("u1", "working", Chars("Fixed two bugs"), Chars(" flaky tests "),
                       None),
      WorkUpdateCreate("u1", "working", Chars("  "), None, None),
      WorkUpdateCreate("u1", "on_leave", None, None, None) }

\* temporary ids a caller may send: every stored one and a text that is no ObjectId
StoredTempIds == {ObjectIdStr(d._id) : d \in temp_work_updates} \cup {Chars("not-an-id")}

\* session ids a caller may send: every stored one and one that names no session
SessionIdInputs == {x._id : x \in followup_sessions} \cup {Chars("u9_session_2024-01-01")}

\* POST /api/followups/start
StartFollowup(temp_work_update_id, user_id, reply) ==
    \E out \in {start_followup_session(temp_work_update_id, user_id, temp_work_updates,
                                      work_updates, followup_sessions, clock, "none", reply)} :
        /\ Served
        /\ followup_sessions' = out.sessions
        /\ result' = [called |-> TRUE, op |-> "start_followup_session",
                      temp_work_update_id |-> temp_work_update_id, user_id |-> user_id,
                      status_code |-> out.status_code, id |-> out.id]
        /\ UNCHANGED << clock, temp_work_updates, work_updates, next_id, next_uuid >>
        /\ UNCHANGED << pureVars, cleanup_run, submit_run, app, complete_run >>

\* PUT /api/followup/{session_id}/complete
CompleteFollowup(session_id, answers) ==
    \E out \in {complete_followup_session(session_id, answers, temp_work_updates,
                                         work_updates, followup_sessions, clock, next_id)} :
        /\ Served
        /\ temp_work_updates' = out.temp
        /\ work_updates' = out.permanent
        /\ followup_sessions' = out.sessions
        /\ next_id' = IF out.inserted THEN next_id + 1 ELSE next_id
        /\ result' = [called |-> TRUE, op |-> "complete_followup_session",
                      session_id |-> session_id, answers |-> answers,
                      status_code |-> out.status_code, id |-> out.id]
        /\ UNCHANGED << clock, next_uuid >>
        /\ UNCHANGED << pureVars, cleanup_run, submit_run, app, complete_run >>

\* cleanup_abandoned_temp_updates(hours_old): 24 from the cleanup route (the scheduled
\* task passes 25 while the TTL index is there; with whole days between requests the
\* two select the same records)
Cleanup(hours_old) ==
    \E out \in {cleanup_abandoned_temp_updates(temp_work_updates, followup_sessions,
                                              hours_old, clock)} :
        /\ Served
        /\ temp_work_updates' = out.temp
        /\ followup_sessions' = out.sessions
        /\ result' = [called |-> TRUE, op |-> "cleanup", hours_old |-> hours_old,
                      deleted_temp_updates |-> out.deleted_temp_updates,
                      deleted_sessions |-> out.deleted_sessions]
        /\ UNCHANGED << clock, work_updates, next_id, next_uuid >>
        /\ UNCHANGED << pureVars, cleanup_run, submit_run, app, complete_run >>

\* the TTL index on submittedAt (expireAfterSeconds = 24 hours): the store deletes a
\* temporary record that has reached that age
ExpireTemp(doc) ==
    /\ Served
    /\ doc.submittedAt.t + HoursPerDay <= clock
    /\ temp_work_updates' = temp_work_updates \ {doc}
    /\ result' = [called |-> TRUE, op |-> "ttl_expiry"]
    /\ UNCHANGED << clock, work_updates, followup_sessions, next_id, next_uuid >>
    /\ UNCHANGED << pureVars, cleanup_run, submit_run, app, complete_run >>

Next ==
    \/ \E work_update \in RouteSubmissions : CreateWorkUpdate(work_update)
    \/ \E temp_id \in StoredTempIds, user_id \in Users, reply \in StartReplies :
           StartFollowup(temp_id, user_id, reply)
    \/ \E session_id \in SessionIdInputs, answers \in AnswerLists :
           CompleteFollowup(session_id, answers)
    \/ Cleanup(HoursPerDay)
    \/ \E doc \in temp_work_updates : ExpireTemp(doc)
    \/ Tick

Spec == InitStore /\ [][Next]_vars

\* the three stores are as they were
StoresUnchanged == UNCHANGED << temp_work_updates, work_updates, followup_sessions >>

\* the session a complete-follow-up request names is pending and its temporary
\* update is still stored
CompletablePending(session_id) ==
    \E s \in followup_sessions :
        /\ s._id = session_id /\ s.status = "pending"
        /\ "tempWorkUpdateId" \in DOMAIN s
        /\ get_temp_work_update(temp_work_updates, s.tempWorkUpdateId) # {}

\* one complete-follow-up request with 3 non-blank answers on such a session
CompleteStep ==
    (/\ result'.called /\ result'.op = "complete_followup_session"
     /\ ~AnswersRejected(result'.answers)
     /\ CompletablePending(result'.session_id))
    => \E s \in followup_sessions, s2 \in followup_sessions', p \in work_updates' :
          \E t \in get_temp_work_update(temp_work_updates, s.tempWorkUpdateId) :
           /\ s._id = result'.session_id /\ s2._id = s._id
           /\ result'.status_code = 200
           /\ s2.status = "completed"
           /\ s2.answers = result'.answers
           /\ s2.completedAt = DateTime(clock)
           /\ s2.questions = s.questions
           /\ s2.workUpdateId = result'.id /\ ObjectIdStr(p._id) = result'.id
           /\ p.userId = t.userId /\ p.update_date = t.update_date
           /\ p.description = t.description
           /\ p.status = "completed" /\ p.followupCompleted
           /\ t \notin temp_work_updates'

\* C5: completing a pending session whose temporary update still exists, with
\* exactly 3 non-blank answers, sets the session's status to completed, stores those
\* 3 answers in order, sets the completion timestamp, and links workUpdateId to the
\* permanent record that promoting the session's temporary update produced.
C5_CompleteLinksPermanent == [][CompleteStep]_vars

\* a session was just completed: it holds the three submitted answers in order and
\* its workUpdateId names a stored permanent record
C5_Witness ==
    /\ result.called /\ result.op = "complete_followup_session"
    /\ result.status_code = 200
    /\ \E s \in followup_sessions, p \in work_updates :
           /\ s._id = result.session_id /\ s.status = "completed"
           /\ s.answers = << Chars("unit tests"), Chars("none"), Chars("deploy") >>
           /\ s.workUpdateId = ObjectIdStr(p._id)
           /\ p.work_status = "working"
    /\ temp_work_updates = {}

\* a call that records answers was refused: 400 from the route, an exception from
\* the service method
Refused(call) ==
    IF call.op = "complete_followup_session" THEN call.status_code = 400 ELSE call.raised

\* one call that records answers, with a list that is not 3 non-blank answers
InvalidAnswersStep ==
    (/\ result'.called
     /\ result'.op \in {"complete_followup_session", "update_followup_answers"}
     /\ AnswersRejected(result'.answers))
    => (Refused(result') /\ StoresUnchanged)

\* C6: every operation that records answers for a session (the complete-follow-up
\* route and update_followup_answers) rejects an answer list whose length is not 3
\* or that holds an empty or whitespace-only answer, before any mutation: the
\* session, the temporary store and the permanent store are unchanged.
C6_InvalidAnswersRejected == [][InvalidAnswersStep]_vars

\* C7: in every reachable state every stored session has exactly 3 questions and
\* exactly 3 answers, and a completed session has no empty answer.
C7_SessionsWellFormed ==
    \A s \in followup_sessions :
        /\ Len(s.questions) = 3
        /\ Len(s.answers) = 3
        /\ s.status = "completed" => \A i \in 1..Len(s.answers) : ~Blank(s.answers[i])

\* a completed session keeps its questions, answers, status and completion time
CompletedKept ==
    \A s \in followup_sessions :
        s.status = "completed"
        => \E s2 \in followup_sessions' :
               /\ s2._id = s._id
               /\ s2.questions = s.questions /\ s2.answers = s.answers
               /\ s2.status = s.status /\ s2.completedAt = s.completedAt

\* C8 as stated: once a session has status completed, no later submit,
\* start-follow-up, complete-follow-up or cleanup changes its questions, answers,
\* status or completion time.
C8_CompletedNeverMutated == [][CompletedKept]_vars

\* a completed session is left exactly as it is, or a start-follow-up request for its
\* user and date has put a new pending, unlinked session under its id
CompletedKeptOrRestarted ==
    \A s \in followup_sessions :
        s.status = "completed"
        => \/ s \in followup_sessions'
           \/ /\ result'.op = "start_followup_session" /\ result'.status_code = 200
              /\ result'.id = s._id
              /\ \E s2 \in followup_sessions' :
                     /\ s2._id = s._id /\ s2.userId = s.userId
                     /\ s2.session_date = s.session_date
                     /\ s2.status = "pending"
                     /\ s2.answers = EmptyAnswers(s2.questions)
                     /\ s2.completedAt = NoneValue
                     /\ "workUpdateId" \notin DOMAIN s2

\* C8 amended: once a session is completed, no later submit, complete-follow-up,
\* cleanup or expiry changes or removes it; only a later start-follow-up for the same
\* user and date changes it, replacing it with a new pending session that has empty
\* answers and no link to a permanent record.
C8_CompletedChangedOnlyByRestart == [][CompletedKeptOrRestarted]_vars

\* a restart has replaced a completed session: the only session is pending although a
\* promoted working update (which only a completion produces) is in the permanent
\* store under the session's user and date
C8_Witness ==
    /\ result.called /\ result.op = "start_followup_session" /\ result.status_code = 200
    /\ \E s \in followup_sessions, p \in work_updates :
           /\ followup_sessions = {s}
           /\ s._id = result.id /\ s.status = "pending"
           /\ p.work_status = "working" /\ p.status = "completed"
           /\ p.userId = s.userId /\ p.update_date = s.session_date

\* the request names something that is not stored: a session id without a session,
\* a session whose temporary update is gone, a temporary id without a record
NotFoundCase(call) ==
    \/ /\ call.op = "complete_followup_session"
       /\ \/ FindById(followup_sessions, call.session_id) = {}
          \/ \E s \in FindById(followup_sessions, call.session_id) :
                 /\ "tempWorkUpdateId" \in DOMAIN s
                 /\ get_temp_work_update(temp_work_updates, s.tempWorkUpdateId) = {}
    \/ /\ call.op = "start_followup_session"
       /\ get_temp_work_update(temp_work_updates, call.temp_work_update_id) = {}

\* one such request: it is answered 404 (400 when the answer list of a completion is
\* itself invalid, which is tested first) and the stores stay as they are
NotFoundStep ==
    (result'.called /\ NotFoundCase(result'))
    => /\ result'.status_code \in {400, 404}
       /\ result'.status_code = 400
              => (result'.op = "complete_followup_session"
                  /\ AnswersRejected(result'.answers))
       /\ StoresUnchanged

\* C9: completing a session id that does not exist, completing a session whose
\* temporary update no longer exists, and starting a follow-up for a temporary id
\* that does not exist each end with the not-found response (404), never with
\* success, and leave the session, temporary and permanent stores unchanged.
C9_NotFoundChangesNothing == [][NotFoundStep]_vars

\* a completion with three good answers was answered 404 because the session's
\* temporary update had expired; the session is still pending
C9_Witness ==
    /\ result.called /\ result.op = "complete_followup_session"
    /\ result.status_code = 404
    /\ ~AnswersRejected(result.answers)
    /\ \E s \in followup_sessions :
           /\ s._id = result.session_id /\ s.status = "pending"
           /\ get_temp_work_update(temp_work_updates, s.tempWorkUpdateId) = {}
    /\ work_updates = {}

\* the collection differs from what it was only in the record of (user, today),
\* which is now there once, under the returned id, with the given status
OnlyRecordWritten(before, after, w, today, status, done) ==
    /\ \A d \in before : (d.userId # w.userId \/ d.update_date # today) => d \in after
    /\ \A d \in after : (d.userId # w.userId \/ d.update_date # today) => d \in before
    /\ \E d \in after :
           /\ FindByUserDate(after, w.userId, today) = {d}
           /\ ObjectIdStr(d._id) = result'.id
           /\ d.status = status /\ d.followupCompleted = done
           /\ d.work_status = w.work_status /\ d.description = w.description

\* one accepted submission
SubmitStep ==
    (/\ result'.called /\ result'.op = "create_work_update"
     /\ result'.status_code = 200)
    => LET w == result'.work_update
           today == FormatDate(DateOf(clock))
       IN  /\ UNCHANGED followup_sessions
           /\ w.work_status = "working"
                  => /\ OnlyRecordWritten(temp_work_updates, temp_work_updates', w, today,
                                          "pending_followup", FALSE)
                     /\ UNCHANGED work_updates
           /\ w.work_status = "on_leave"
                  => /\ OnlyRecordWritten(work_updates, work_updates', w, today,
                                          "completed", TRUE)
                     /\ UNCHANGED temp_work_updates

\* C16: an accepted submission with status working creates or replaces only the
\* temporary record of (user, today), with status pending_followup and
\* followupCompleted false, and touches neither the permanent store nor the sessions;
\* a submission with status on_leave creates or replaces only the permanent record of
\* (user, today), with status completed and followupCompleted true, and creates no
\* temporary record and no session.
C16_SubmissionWritesOneArea == [][SubmitStep]_vars

\* a leave submission has replaced the permanent record that a completed follow-up
\* had produced the same day; the completed session is still stored
C16_Witness ==
    /\ result.called /\ result.op = "create_work_update"
    /\ result.status_code = 200 /\ ~result.inserted
    /\ result.work_update.work_status = "on_leave"
    /\ \E s \in followup_sessions, p \in work_updates :
           /\ s.status = "completed" /\ s.workUpdateId = ObjectIdStr(p._id)
           /\ p.work_status = "on_leave"

\* one run of the cleanup with threshold h = result'.hours_old
CleanupStep ==
    (result'.called /\ result'.op = "cleanup")
    => LET h == result'.hours_old
           old == {d \in temp_work_updates :
                      d.status = "pending_followup" /\ d.submittedAt.t < clock - h}
           ids == {ObjectIdStr(d._id) : d \in old}
           linked == {s \in followup_sessions :
                         \/ "tempWorkUpdateId" \in DOMAIN s /\ s.tempWorkUpdateId \in ids
                         \/ "workUpdateId" \in DOMAIN s /\ s.workUpdateId \in ids}
       IN  /\ temp_work_updates' = temp_work_updates \ old
           /\ followup_sessions' = followup_sessions \ linked
           /\ UNCHANGED work_updates
           /\ result'.deleted_temp_updates = Cardinality(old)

\* C18: after cleanup_abandoned_temp_updates(h) no temporary record with status
\* pending_followup submitted more than h hours ago remains, every session whose
\* tempWorkUpdateId or workUpdateId is the id of a deleted temporary record is
\* deleted, and newer temporary records, sessions that reference no deleted record
\* and all permanent records are unchanged.
C18_CleanupRemovesAbandoned == [][CleanupStep]_vars

\* a cleanup has deleted an abandoned temporary record and the pending session that
\* referenced it
C18_Witness ==
    /\ result.called /\ result.op = "cleanup"
    /\ result.deleted_temp_updates = 1 /\ result.deleted_sessions >= 1
    /\ temp_work_updates = {} /\ followup_sessions = {}

\* what the submission route gives a temporary record (main.py 782-783)
AwaitingFollowup(d) == d.status = "pending_followup" /\ d.followupCompleted = FALSE

\* what the leave branch and the promotion give a permanent record (main.py 754-755,
\* database.py 454-455)
Finalized(d) == d.status = "completed" /\ d.followupCompleted = TRUE

\* C31: in every state the submissions, follow-up starts, completions (promotions),
\* cleanups and expiries reach, every record in the temporary area has status
\* pending_followup and followupCompleted false, and every record in the permanent
\* area has status completed and followupCompleted true.
C31_StoreStatusInvariant ==
    /\ \A d \in temp_work_updates : AwaitingFollowup(d)
    /\ \A d \in work_updates : Finalized(d)

\* a promoted record is in the permanent area while a newer temporary record waits
\* for its follow-up
C31_Witness ==
    /\ \E d \in work_updates : d.work_status = "working" /\ "completedAt" \in DOMAIN d
    /\ temp_work_updates # {}

\* C37: a session's owner is the owner of the update it references: for every session
\* start_followup_session created, the session's userId is the userId of the
\* temporary record its tempWorkUpdateId names, so that completing a session never
\* promotes another user's update.
C37_SessionOwnerMatchesUpdate ==
    \A x \in followup_sessions :
        "tempWorkUpdateId" \in DOMAIN x =>
            \A d \in get_temp_work_update(temp_work_updates, x.tempWorkUpdateId) :
                d.userId = x.userId

(***************************************************************************)
(* Service specification: the application, and direct calls of the         *)
(* session methods of AIFollowupService.                                   *)
(***************************************************************************)
\* await ai_service.save_followup_session(user_id, questions)
SaveFollowupSession(user_id, questions) ==
    \E out \in {save_followup_session(user_id, questions, followup_sessions, clock,
                                      next_uuid)} :
        /\ Served
        /\ followup_sessions' = IF out.raised THEN followup_sessions ELSE out.val.sessions
        /\ next_uuid' = next_uuid + 1
        /\ result' = [called |-> TRUE, op |-> "save_followup_session",
                      user_id |-> user_id, raised |-> out.raised,
                      id |-> IF out.raised THEN << >> ELSE out.val.id]
        /\ UNCHANGED << clock, temp_work_updates, work_updates, next_id >>
        /\ UNCHANGED << pureVars, cleanup_run, submit_run, app, complete_run >>

\* await ai_service.update_followup_answers(session_id, answers)
UpdateFollowupAnswers(session_id, answers) ==
    \E out \in {update_followup_answers(session_id, answers, followup_sessions, clock)} :
        /\ Served
        /\ followup_sessions' = IF out.raised THEN followup_sessions ELSE out.val.sessions
        /\ result' = [called |-> TRUE, op |-> "update_followup_answers",
                      session_id |-> session_id, answers |-> answers,
                      raised |-> out.raised]
        /\ UNCHANGED << clock, temp_work_updates, work_updates, next_id, next_uuid >>
        /\ UNCHANGED << pureVars, cleanup_run, submit_run, app, complete_run >>

NextService ==
    \/ \E work_update \in RouteSubmissions : CreateWorkUpdate(work_update)
    \/ \E temp_id \in StoredTempIds, user_id \in Users, reply \in StartReplies :
           StartFollowup(temp_id, user_id, reply)
    \/ \E session_id \in SessionIdInputs, answers \in AnswerLists :
           CompleteFollowup(session_id, answers)
    \/ \E user_id \in Users : SaveFollowupSession(user_id, get_default_questions)
    \/ \E session_id \in SessionIdInputs, answers \in AnswerLists :
           UpdateFollowupAnswers(session_id, answers)
    \/ Tick

SpecService == InitStore /\ [][NextService]_vars

\* a completion request with three non-blank answers names a stored pending session:
\* it succeeds or reports not-found
CompletePendingStep ==
    (/\ result'.called /\ result'.op = "complete_followup_session"
     /\ calls' = calls + 1
     /\ ~AnswersRejected(result'.answers)
     /\ \E x \in FindById(followup_sessions, result'.session_id) : x.status = "pending")
    => result'.status_code \in {200, 404}

\* C38: every stored session references a temporary update: each session created by
\* start_followup_session or by save_followup_session carries a tempWorkUpdateId, so
\* completing a stored pending session with 3 non-blank answers succeeds or reports
\* not-found and never fails with an internal error.
C38_SessionsReferenceTempUpdate ==
    /\ [](\A x \in followup_sessions : "tempWorkUpdateId" \in DOMAIN x)
    /\ [][CompletePendingStep]_vars

(***************************************************************************)
(* Sessions specification: one user's working submissions, follow-up       *)
(* starts for either user, completions, ad hoc sessions saved through      *)
(* save_followup_session, cleanups, expiries, passing days, and reads of   *)
(* the pending session.                                                    *)
(***************************************************************************)
SessionSubmissions ==
    { WorkUpdateCreate("u1", "working", Chars("Built the login page"), None,
                       Chars("deploy service")) }

\* await ai_service.get_pending_followup_session(user_id)
GetPendingFollowupSession(user_id, fault) ==
    \E out \in get_pending_followup_session(user_id, followup_sessions, fault) :
        /\ result' = [called |-> TRUE, op |-> "get_pending_followup_session",
                      user_id |-> user_id, fault |-> fault, out |-> out]
        /\ UNCHANGED << clock, temp_work_updates, work_updates, followup_sessions,
                        next_id, next_uuid, calls >>
        /\ UNCHANGED << pureVars, cleanup_run, submit_run, app, complete_run >>

NextSessions ==
    \/ \E work_update \in SessionSubmissions : CreateWorkUpdate(work_update)
    \/ \E temp_id \in StoredTempIds, user_id \in Users : StartFollowup(temp_id, user_id, << >>)
    \/ \E session_id \in SessionIdInputs :
           CompleteFollowup(session_id, << Chars("unit tests"), Chars("none"), Chars("deploy") >>)
    \/ \E user_id \in Users : SaveFollowupSession(user_id, get_default_questions)
    \/ \E user_id \in Users, fault \in BOOLEAN : GetPendingFollowupSession(user_id, fault)
    \/ Cleanup(HoursPerDay)
    \/ \E doc \in temp_work_updates : ExpireTemp(doc)
    \/ Tick

SpecSessions == InitStore /\ [][NextSessions]_vars

\* the pending sessions of a user
PendingOf(user_id) ==
    {s \in followup_sessions : s.userId = user_id /\ s.status = "pending"}

\* the last call was a read of the pending session
PendingRead == result.called /\ result.op = "get_pending_followup_session"

\* the read returned a pending session of the user with the latest creation time
ReturnsNewestPending ==
    /\ result.out.found
    /\ \E s \in PendingOf(result.user_id) :
           /\ result.out.session.sessionId = s._id
           /\ \A k \in DOMAIN s : result.out.session[k] = s[k]
           /\ \A x \in PendingOf(result.user_id) : x.createdAt.t <= s.createdAt.t

C15_OnePendingPerUser ==
    \A s1 \in followup_sessions, s2 \in followup_sessions :
        (s1.userId = s2.userId /\ s1.status = "pending" /\ s2.status = "pending")
        => s1 = s2

\* C15 amended: in every reachable state each user has at most one session for each
\* session date, and at most one session without a session date (the sessions of
\* save_followup_session); so a user has at most one pending session per date.
C15_OneSessionPerUserDate ==
    \A s1 \in followup_sessions, s2 \in followup_sessions :
        (/\ s1.userId = s2.userId
         /\ Get(s1, "session_date", None) = Get(s2, "session_date", None))
        => s1 = s2

\* one user has two pending sessions, of the first day and of the second day
C15_Witness ==
    \E s1 \in followup_sessions, s2 \in followup_sessions :
        /\ s1.userId = s2.userId
        /\ s1.status = "pending" /\ s2.status = "pending"
        /\ "session_date" \in DOMAIN s1 /\ "session_date" \in DOMAIN s2
        /\ s1.session_date # s2.session_date

(***************************************************************************)
(* Expiry specification: submissions, follow-up starts and completions     *)
(* arrive until MaxClock; time keeps passing for two more days, the        *)
(* store's TTL monitor deletes temporary records that are 24 hours old,    *)
(* and the hourly task of main.py runs the cleanup.  The scheduler's steps *)
(* are not requests and are not counted.                                   *)
(***************************************************************************)
\* the hour at which time stops in this specification
Horizon == MaxClock + 2 * TickHours

\* requests arrive until MaxClock
Open == clock <= MaxClock

\* a day passes
TimePasses ==
    /\ clock + TickHours <= Horizon
    /\ clock' = clock + TickHours
    /\ result' = [called |-> TRUE, op |-> "tick"]
    /\ UNCHANGED << temp_work_updates, work_updates, followup_sessions, next_id,
                    next_uuid, calls >>
    /\ UNCHANGED << pureVars, cleanup_run, submit_run, app, complete_run >>

\* the TTL monitor deletes a temporary record that has reached 24 hours
TtlDeletes(doc) ==
    /\ doc.submittedAt.t + HoursPerDay <= clock
    /\ temp_work_updates' = temp_work_updates \ {doc}
    /\ result' = [called |-> TRUE, op |-> "ttl_expiry"]
    /\ UNCHANGED << clock, work_updates, followup_sessions, next_id, next_uuid, calls >>
    /\ UNCHANGED << pureVars, cleanup_run, submit_run, app, complete_run >>

\* one round of scheduled_cleanup_task: cleanup_abandoned_temp_updates(25) when
\* verify_ttl_index finds the TTL index, cleanup_abandoned_temp_updates(24) otherwise
ScheduledCleanup(hours_old) ==
    \E out \in {cleanup_abandoned_temp_updates(temp_work_updates, followup_sessions,
                                              hours_old, clock)} :
        /\ temp_work_updates' = out.temp
        /\ followup_sessions' = out.sessions
        /\ result' = [called |-> TRUE, op |-> "cleanup", hours_old |-> hours_old,
                      deleted_temp_updates |-> out.deleted_temp_updates,
                      deleted_sessions |-> out.deleted_sessions]
        /\ UNCHANGED << clock, work_updates, next_id, next_uuid, calls >>
        /\ UNCHANGED << pureVars, cleanup_run, submit_run, app, complete_run >>

TtlMonitor == \E doc \in temp_work_updates : TtlDeletes(doc)

CleanupTask == \E hours_old \in {HoursPerDay, HoursPerDay + 1} : ScheduledCleanup(hours_old)

NextExpiry ==
    \/ Open /\ \E work_update \in SessionSubmissions : CreateWorkUpdate(work_update)
    \/ Open /\ \E d \in temp_work_updates : StartFollowup(ObjectIdStr(d._id), "u1", << >>)
    \/ Open /\ \E x \in followup_sessions :
           CompleteFollowup(x._id, << Chars("unit tests"), Chars("none"), Chars("deploy") >>)
    \/ TimePasses
    \/ TtlMonitor
    \/ CleanupTask

\* time advances, and the TTL monitor or the hourly task keeps running
SpecExpiry ==
    /\ InitStore /\ [][NextExpiry]_vars
    /\ WF_vars(TimePasses)
    /\ (WF_vars(TtlMonitor) \/ WF_vars(CleanupTask))

\* a temporary record with ObjectId n is stored
TempStored(n) == \E d \in temp_work_updates : d._id = n

\* C19: every temporary record that is never promoted is eventually deleted, given
\* that time advances and that the TTL monitor or the hourly cleanup task keeps
\* running: a stored temporary record is eventually no longer stored.
C19_TempEventuallyGone ==
    \A n \in 1..(MaxCalls + 1) : TempStored(n) ~> ~TempStored(n)

\* a cleanup of the hourly task has deleted a temporary record that was never
\* promoted (the permanent store is empty) and that the TTL monitor had left
C19_Witness ==
    /\ result.called /\ result.op = "cleanup" /\ result.deleted_temp_updates = 1
    /\ calls < MaxCalls
    /\ work_updates = {} /\ temp_work_updates = {}

(***************************************************************************)
(* Cleanup specification: cleanup_abandoned_temp_updates runs await by     *)
(* await (the find, then for each selected record the delete_many on the   *)
(* sessions and the delete_one on the record), while submissions,          *)
(* follow-up starts, completions, the TTL monitor and the passing of days  *)
(* take their steps in between.                                            *)
(***************************************************************************)
CleanupIdle == [pc |-> "idle"]

\* lines 225-236: the cutoff is computed and the cursor holds the selected records
CleanupFind(hours_old) ==
    /\ cleanup_run.pc = "idle"
    /\ cleanup_run' = [pc |-> "for", hours_old |-> hours_old, now |-> clock,
                       cursor |-> ToList(Abandoned(temp_work_updates, hours_old, clock)),
                       abandoned_count |-> 0, deleted_sessions_count |-> 0]
    /\ UNCHANGED << clock, temp_work_updates, work_updates, followup_sessions, next_id,
                    next_uuid, calls, result >>
    /\ UNCHANGED << pureVars, submit_run, app, complete_run >>

\* lines 238-248: the next record of the cursor, and the delete_many on its sessions
CleanupDeleteSessions ==
    /\ cleanup_run.pc = "for" /\ cleanup_run.cursor # << >>
    /\ \E dropped \in {SessionsOf(followup_sessions,
                                   ObjectIdStr(Head(cleanup_run.cursor)._id))} :
           /\ followup_sessions' = followup_sessions \ dropped
           /\ cleanup_run' = [cleanup_run EXCEPT
                                  !.pc = "delete_one",
                                  !.deleted_sessions_count = @ + Cardinality(dropped)]
    /\ UNCHANGED << clock, temp_work_updates, work_updates, next_id, next_uuid, calls,
                    result >>
    /\ UNCHANGED << pureVars, submit_run, app, complete_run >>

\* lines 250-252: the delete_one on the record; an exception ends the call in the
\* except clause (lines 264-271), which returns the error result
CleanupDeleteTemp ==
    /\ cleanup_run.pc = "delete_one"
    /\ \E out \in {delete_one(temp_work_updates, Head(cleanup_run.cursor)._id)} :
           IF out.raised
           THEN /\ result' = [called |-> TRUE, op |-> "cleanup", error |-> TRUE,
                              hours_old |-> cleanup_run.hours_old,
                              now |-> cleanup_run.now,
                              deleted_temp_updates |-> 0, deleted_sessions |-> 0]
                /\ cleanup_run' = CleanupIdle
                /\ UNCHANGED temp_work_updates
           ELSE /\ temp_work_updates' = out.val
                /\ cleanup_run' = [cleanup_run EXCEPT
                                       !.pc = "for",
                                       !.cursor = Tail(@),
                                       !.abandoned_count = @ + 1]
                /\ UNCHANGED result
    /\ UNCHANGED << clock, work_updates, followup_sessions, next_id, next_uuid, calls >>
    /\ UNCHANGED << pureVars, submit_run, app, complete_run >>

\* lines 254-263: the cursor is exhausted and the counts are returned
CleanupReturn ==
    /\ cleanup_run.pc = "for" /\ cleanup_run.cursor = << >>
    /\ result' = [called |-> TRUE, op |-> "cleanup", error |-> FALSE,
                  hours_old |-> cleanup_run.hours_old, now |-> cleanup_run.now,
                  deleted_temp_updates |-> cleanup_run.abandoned_count,
                  deleted_sessions |-> cleanup_run.deleted_sessions_count]
    /\ cleanup_run' = CleanupIdle
    /\ UNCHANGED << clock, temp_work_updates, work_updates, followup_sessions, next_id,
                    next_uuid, calls >>
    /\ UNCHANGED << pureVars, submit_run, app, complete_run >>

\* the call in progress takes its next step
CleanupContinues == CleanupDeleteSessions \/ CleanupDeleteTemp \/ CleanupReturn

NextCleanup ==
    \/ \E work_update \in SessionSubmissions : CreateWorkUpdate(work_update)
    \/ \E d \in temp_work_updates : StartFollowup(ObjectIdStr(d._id), "u1", << >>)
    \/ \E x \in followup_sessions :
           CompleteFollowup(x._id, << Chars("unit tests"), Chars("none"), Chars("deploy") >>)
    \/ \E doc \in temp_work_updates : ExpireTemp(doc)
    \/ Tick
    \/ CleanupFind(HoursPerDay)
    \/ CleanupDeleteSessions
    \/ CleanupDeleteTemp
    \/ CleanupReturn

\* a cleanup call that has started keeps running
SpecCleanup == InitStore /\ [][NextCleanup]_vars /\ WF_vars(CleanupContinues)

\* a cleanup call returns: without error, and the stores are as its last delete left
\* them
ReturnStep ==
    (cleanup_run.pc # "idle" /\ cleanup_run'.pc = "idle")
    => /\ result'.op = "cleanup" /\ ~result'.error
       /\ StoresUnchanged

\* a cleanup call starts right after a cleanup call with the same threshold returned,
\* at the same time: its find selects nothing
RepeatStep ==
    (/\ cleanup_run.pc = "idle" /\ cleanup_run'.pc = "for"
     /\ result.called /\ result.op = "cleanup"
     /\ result.hours_old = cleanup_run'.hours_old /\ result.now = clock)
    => cleanup_run'.cursor = << >>

\* that second call returns: it has deleted nothing
RepeatReturnStep ==
    (/\ cleanup_run.pc = "for" /\ cleanup_run'.pc = "idle"
     /\ result.called /\ result.op = "cleanup"
     /\ result.hours_old = cleanup_run.hours_old /\ result.now = cleanup_run.now)
    => /\ result'.deleted_temp_updates = 0 /\ result'.deleted_sessions = 0
       /\ StoresUnchanged

\* C20: the cleanup and the store's native expiry do not conflict: when the expiry, or
\* a promotion, removes a temporary record after the cleanup selected it and before
\* the cleanup deletes it, the cleanup still completes without error; and the cleanup
\* is idempotent: run again at once, with nothing written in between, it deletes
\* nothing and leaves every store unchanged.
C20_CleanupToleratesExpiry ==
    /\ [][ReturnStep /\ RepeatStep /\ RepeatReturnStep]_vars
    /\ (cleanup_run.pc # "idle") ~> (cleanup_run.pc = "idle")

\* a cleanup has returned without error after its selected record, the only temporary
\* record ever stored, was promoted under it: the record is in the permanent store
\* and the cleanup counts it as deleted
C20_Witness ==
    /\ result.called /\ result.op = "cleanup" /\ ~result.error
    /\ result.deleted_temp_updates = 1
    /\ next_id = 3
    /\ \E p \in work_updates : p.work_status = "working" /\ p.status = "completed"
    /\ temp_work_updates = {}

(***************************************************************************)
(* Race specification: two POST /api/work-updates requests run await by    *)
(* await (the find_one, then the replace_one or the insert_one), so that   *)
(* the steps of one request fall between the steps of the other.  The      *)
(* collections carry the unique indexes on (userId, update_date) that      *)
(* create_indexes builds at startup.                                       *)
(***************************************************************************)
\* request bodies of the race: two working submissions of one user, one of them
\* also with a blank description, and a leave
RaceSubmissions ==
    { WorkUpdateCreate("u1", "working", Chars("Built the login page"), None, None),
      WorkUpdateCreate("u1", "working", Chars("Fixed two bugs"), None, None),
      WorkUpdateCreate("u1", "working", Chars("  "), None, None),
      WorkUpdateCreate("u1", "on_leave", None, None, None) }

\* the unique index on (userId, update_date): an insert of a second document with
\* the same pair raises DuplicateKeyError
DuplicateKey(collection, doc) ==
    \E x \in collection : x.userId = doc.userId /\ x.update_date = doc.update_date

\* the collection a submission is written to
OnLeave(work_update) == work_update.work_status = "on_leave"

\* update_dict of create_work_update, for either branch
UpdateDict(work_update, today_date, now) ==
    IF OnLeave(work_update)
    THEN Updated(work_update,
                 [update_date |-> today_date, submittedAt |-> DateTime(now),
                  followupCompleted |-> TRUE, status |-> "completed"])
    ELSE Updated(work_update,
                 [update_date |-> today_date, submittedAt |-> DateTime(now),
                  status |-> "pending_followup", followupCompleted |-> FALSE])

\* the request arrives; a working submission with a blank description is refused
\* at once (lines 734-741), any other goes on to its find_one
SubmitBegin(r, work_update) ==
    /\ submit_run[r].pc \in {"idle", "done"}
    /\ Served
    /\ IF /\ work_update.work_status = "working"
          /\ (~Truthy(work_update.description) \/ Blank(work_update.description))
       THEN submit_run' = [submit_run EXCEPT ![r] =
                               [pc |-> "done", work_update |-> work_update,
                                today_date |-> FormatDate(DateOf(clock)),
                                status_code |-> 400, id |-> << >>]]
       ELSE submit_run' = [submit_run EXCEPT ![r] =
                               [pc |-> "find_one", work_update |-> work_update,
                                today_date |-> FormatDate(DateOf(clock))]]
    /\ UNCHANGED << clock, temp_work_updates, work_updates, followup_sessions, next_id,
                    next_uuid, result, cleanup_run, app, complete_run >>
    /\ UNCHANGED pureVars

\* await find_one({"userId": ..., "update_date": today_date}) on the collection of
\* the submission's branch
SubmitFindOne(r) ==
    /\ submit_run[r].pc = "find_one"
    /\ submit_run' = [submit_run EXCEPT ![r] =
           [pc |-> "write", work_update |-> @.work_update, today_date |-> @.today_date,
            existing |-> FindByUserDate(IF OnLeave(@.work_update)
                                        THEN work_updates ELSE temp_work_updates,
                                        @.work_update.userId, @.today_date)]]
    /\ UNCHANGED << clock, temp_work_updates, work_updates, followup_sessions, next_id,
                    next_uuid, calls, result, cleanup_run, app, complete_run >>
    /\ UNCHANGED pureVars

\* the request's write: replace_one on the record found, or insert_one when none was
\* found; a DuplicateKeyError of the insert reaches the route's except clause
\* (lines 800-805) and the response is 500
SubmitWrite(r) ==
    LET me == submit_run[r]
        leave == OnLeave(me.work_update)
        collection == IF leave THEN work_updates ELSE temp_work_updates
        update_dict == UpdateDict(me.work_update, me.today_date, clock)
    IN  /\ me.pc = "write"
        /\ \E out \in {IF me.existing # {}
                       THEN [status_code |-> 200, inserted |-> FALSE,
                             collection |-> ReplaceOne(collection,
                                                       FirstOf(me.existing)._id,
                                                       update_dict),
                             id |-> ObjectIdStr(FirstOf(me.existing)._id)]
                       ELSE IF DuplicateKey(collection, update_dict)
                       THEN [status_code |-> 500, inserted |-> FALSE,
                             collection |-> collection, id |-> << >>]
                       ELSE [status_code |-> 200, inserted |-> TRUE,
                             collection |-> collection
                                            \cup {WithId(update_dict, next_id)},
                             id |-> ObjectIdStr(next_id)]} :
               /\ temp_work_updates' = IF leave THEN temp_work_updates ELSE out.collection
               /\ work_updates' = IF leave THEN out.collection ELSE work_updates
               /\ next_id' = IF out.inserted THEN next_id + 1 ELSE next_id
               /\ submit_run' = [submit_run EXCEPT ![r] =
                                     [pc |-> "done", work_update |-> me.work_update,
                                      today_date |-> me.today_date,
                                      status_code |-> out.status_code, id |-> out.id]]
               /\ result' = [called |-> TRUE, op |-> "create_work_update",
                             work_update |-> me.work_update,
                             status_code |-> out.status_code,
                             id |-> out.id, inserted |-> out.inserted]
        /\ UNCHANGED << clock, followup_sessions, next_uuid, calls, cleanup_run, app, complete_run >>
        /\ UNCHANGED pureVars

\* a day passes while no request is in progress
RaceTick ==
    /\ \A r \in Requests : submit_run[r].pc \in {"idle", "done"}
    /\ Tick

NextRace ==
    \/ \E r \in Requests : \E work_update \in RaceSubmissions : SubmitBegin(r, work_update)
    \/ \E r \in Requests : SubmitFindOne(r)
    \/ \E r \in Requests : SubmitWrite(r)
    \/ RaceTick

SpecRace == InitStore /\ [][NextRace]_vars

\* requests r1 and r2 have both answered, and were for the same (user, date) and the
\* same area, with a description the route accepts
SameTarget(r1, r2) ==
    /\ r1 # r2
    /\ submit_run[r1].pc = "done" /\ submit_run[r2].pc = "done"
    /\ submit_run[r1].status_code # 400 /\ submit_run[r2].status_code # 400
    /\ submit_run[r1].work_update.userId = submit_run[r2].work_update.userId
    /\ submit_run[r1].today_date = submit_run[r2].today_date
    /\ OnLeave(submit_run[r1].work_update) = OnLeave(submit_run[r2].work_update)

\* the submitted fields of stored record d are those of request r
HoldsContentOf(d, r) ==
    \A k \in DOMAIN submit_run[r].work_update : d[k] = submit_run[r].work_update[k]

\* C21: two submissions for the same (user, date), their find and insert/replace
\* steps interleaved in any way, both complete without error, and exactly one record
\* for that (user, date) remains in the area, holding the content of one of the two
C21_ConcurrentSubmissionsLastWriteWins ==
    \A r1 \in Requests : \A r2 \in Requests :
        SameTarget(r1, r2) =>
            LET me == submit_run[r1]
                area == IF OnLeave(me.work_update) THEN work_updates
                        ELSE temp_work_updates
                stored == FindByUserDate(area, me.work_update.userId, me.today_date)
            IN  /\ me.status_code = 200 /\ submit_run[r2].status_code = 200
                /\ Cardinality(stored) = 1
                /\ \A d \in stored : HoldsContentOf(d, r1) \/ HoldsContentOf(d, r2)

(***************************************************************************)
(* Faults specification: the store and session operations are called       *)
(* while the store is unreachable, so that the first store call inside     *)
(* their try block raises, among submissions, promotions, ad hoc sessions  *)
(* and passing days that succeed.                                          *)
(***************************************************************************)
\* the store and session operations with a try block around their store calls
StoreOperations ==
    {"create_temp_work_update", "get_temp_work_update", "delete_temp_work_update",
     "move_temp_to_permanent", "save_followup_session", "update_followup_answers",
     "get_pending_followup_session"}

\* the except clause of each operation: what the caller gets when a store call in
\* the try block raises
on_store_failure(operation) ==
    CASE operation = "create_temp_work_update" -> Raise("PyMongoError")
      [] operation = "get_temp_work_update" -> Return("None")
      [] operation = "delete_temp_work_update" -> Return("False")
      [] operation = "move_temp_to_permanent" -> Raise("PyMongoError")
      [] operation = "save_followup_session" -> Raise("Exception")
      [] operation = "update_followup_answers" -> Raise("Exception")
      [] operation = "get_pending_followup_session" -> Return("None")

\* one call of a store or session operation that meets a persistence failure: the
\* store call raises before it changes anything, and the except clause decides
StoreFailure(operation) ==
    \E out \in {on_store_failure(operation)} :
        /\ Served
        /\ result' = [called |-> TRUE, op |-> "store_failure", operation |-> operation,
                      attempts |-> 1, raised |-> out.raised,
                      val |-> IF out.raised THEN "" ELSE out.val]
        /\ UNCHANGED << clock, temp_work_updates, work_updates, followup_sessions,
                        next_id, next_uuid >>
        /\ UNCHANGED << pureVars, cleanup_run, submit_run, app, complete_run >>

NextFaults ==
    \/ \E work_update \in SessionSubmissions : CreateWorkUpdate(work_update)
    \/ \E temp_id \in TempIdInputs : MoveTemp(temp_id)
    \/ \E user_id \in Users : SaveFollowupSession(user_id, get_default_questions)
    \/ \E operation \in StoreOperations : StoreFailure(operation)
    \/ Tick

SpecFaults == InitStore /\ [][NextFaults]_vars

\* C22: a persistence failure inside a store or session operation is re-raised to
\* the caller, after one attempt, and never becomes a normal return value
C22_StoreFailuresReraised ==
    (result.called /\ result.op = "store_failure") =>
        (result.raised /\ result.attempts = 1)

(***************************************************************************)
(* Timestamp specification: _extract_timestamp is called on records of     *)
(* unknown shape, each of the three fields it looks at being absent, None, *)
(* a datetime or a string.                                                 *)
(***************************************************************************)
TimestampKeys == {"submittedAt", "timestamp", "date"}

\* what a field can hold: None, a datetime, a date string that parses and one that
\* does not
TimestampValues ==
    {NoneValue, DateTime(GenNow - 1), DateTime(GenNow - 16),
     StrValue(Chars("2024-01-10")), StrValue(Chars("next week"))}

InitTimestamp ==
    /\ response = << >>
    /\ parsed = NoCall
    /\ genIn = [called |-> FALSE, doc |-> [userId |-> "u1"]]
    /\ genOut = NoCall
    /\ StoresIdle

\* the record has one more field
SetField(key, value) ==
    /\ ~genIn.called
    /\ key \notin DOMAIN genIn.doc
    /\ genIn' = [genIn EXCEPT !.doc = (key :> value) @@ @]
    /\ UNCHANGED << response, parsed, genOut >>
    /\ UNCHANGED storeVars

\* self._extract_timestamp(doc)
ExtractTimestamp ==
    /\ ~genIn.called
    /\ genIn' = [genIn EXCEPT !.called = TRUE]
    /\ genOut' = [called |-> TRUE] @@ Return(extract_timestamp(genIn.doc))
    /\ UNCHANGED << response, parsed >>
    /\ UNCHANGED storeVars

NextTimestamp ==
    \/ \E key \in TimestampKeys, value \in TimestampValues : SetField(key, value)
    \/ ExtractTimestamp

SpecTimestamp == InitTimestamp /\ [][NextTimestamp]_vars

\* the point in time a field yields, NoneValue when it yields none: a datetime
\* counts as it is, and a string counts in the date field, parsed
PointInTime(doc, key) ==
    IF key \notin DOMAIN doc THEN NoneValue
    ELSE IF doc[key].tag = "datetime" THEN doc[key]
    ELSE IF key = "date" /\ doc[key].tag = "str" THEN parse_date(doc[key].s)
    ELSE NoneValue

\* the first usable value among submittedAt, timestamp and date
FirstUsable(doc) ==
    IF PointInTime(doc, "submittedAt") # NoneValue THEN PointInTime(doc, "submittedAt")
    ELSE IF PointInTime(doc, "timestamp") # NoneValue THEN PointInTime(doc, "timestamp")
    ELSE PointInTime(doc, "date")

\* C23: _extract_timestamp never raises and returns the first usable value among
\* the submission timestamp, the generic timestamp and the (parsed) date field,
\* None only when none of the three yields a point in time
C23_FirstUsableTimestamp ==
    genOut.called => (~genOut.raised /\ genOut.val = FirstUsable(genIn.doc))

(***************************************************************************)
(* Lifespan specification: the background task of main.py runs its loop    *)
(* (verify_ttl_index, cleanup_abandoned_temp_updates, an hour's sleep)     *)
(* while submissions arrive and days pass, and the application shuts down: *)
(* lifespan cancels the task, awaits it, and closes the connection.        *)
(* asyncio runs every task that is ready, so the task's steps and the      *)
(* steps of a shutdown that has begun are taken under weak fairness.       *)
(***************************************************************************)
\* asyncio.CancelledError taken for an Exception, as before Python 3.8
cancelled_is_exception(exc) == TRUE

\* `except Exception` catches exc: asyncio.CancelledError derives from
\* BaseException and passes through
IsException(exc) == exc # "CancelledError"

\* what can go wrong in one iteration: nothing, a store failure that
\* cleanup_abandoned_temp_updates reports in its result, an exception in the try
\* block of the loop
IterationFaults == {"none", "store", "exception"}

\* a request is served while the application is up
Up == app.phase = "serving"

\* ttl_working = await verify_ttl_index(): False also when the check itself fails
TaskVerifyTtl(ttl_working) ==
    /\ app.cleanup_task = "loop" /\ ~app.cancel_requested
    /\ app' = [app EXCEPT !.cleanup_task = "cleanup", !.ttl_working = ttl_working]
    /\ UNCHANGED << clock, temp_work_updates, work_updates, followup_sessions, next_id,
                    next_uuid, calls, result, cleanup_run, submit_run, complete_run >>
    /\ UNCHANGED pureVars

\* result = await cleanup_abandoned_temp_updates(25 or 24), the log lines, and the
\* except clause of the loop; the task then sleeps
TaskCleanup(fault) ==
    /\ app.cleanup_task = "cleanup" /\ ~app.cancel_requested
    /\ \E out \in {cleanup_abandoned_temp_updates(
                       temp_work_updates, followup_sessions,
                       IF app.ttl_working THEN HoursPerDay + 1 ELSE HoursPerDay,
                       clock)} :
           IF fault = "none"
           THEN /\ temp_work_updates' = out.temp
                /\ followup_sessions' = out.sessions
                /\ result' = [called |-> TRUE, op |-> "cleanup",
                              hours_old |-> IF app.ttl_working THEN HoursPerDay + 1
                                            ELSE HoursPerDay,
                              deleted_temp_updates |-> out.deleted_temp_updates,
                              deleted_sessions |-> out.deleted_sessions]
                /\ app' = [app EXCEPT !.cleanup_task = "sleep", !.last_run = "ok"]
           ELSE /\ UNCHANGED << temp_work_updates, followup_sessions, result >>
                /\ app' = [app EXCEPT
                               !.cleanup_task = IF fault = "store" \/ IsException("Exception")
                                                THEN "sleep" ELSE "ended",
                               !.last_run = "error"]
    /\ UNCHANGED << clock, work_updates, next_id, next_uuid, calls, cleanup_run,
                    submit_run, complete_run >>
    /\ UNCHANGED pureVars

\* await asyncio.sleep(3600) returns and the loop starts over
TaskWake ==
    /\ app.cleanup_task = "sleep" /\ ~app.cancel_requested
    /\ app' = [app EXCEPT !.cleanup_task = "loop"]
    /\ UNCHANGED << clock, temp_work_updates, work_updates, followup_sessions, next_id,
                    next_uuid, calls, result, cleanup_run, submit_run, complete_run >>
    /\ UNCHANGED pureVars

\* the cancellation reaches the task at the await it is suspended in: in the sleep
\* it leaves the loop; inside the try block it leaves the loop unless the except
\* clause of the loop catches it, in which case the task goes on to its sleep
TaskCancelled ==
    /\ app.cancel_requested /\ app.cleanup_task \in {"loop", "cleanup", "sleep"}
    /\ app' = IF app.cleanup_task # "sleep" /\ IsException("CancelledError")
              THEN [app EXCEPT !.cleanup_task = "sleep", !.cancel_requested = FALSE,
                               !.last_run = "error"]
              ELSE [app EXCEPT !.cleanup_task = "cancelled",
                               !.cancel_requested = FALSE]
    /\ UNCHANGED << clock, temp_work_updates, work_updates, followup_sessions, next_id,
                    next_uuid, calls, result, cleanup_run, submit_run, complete_run >>
    /\ UNCHANGED pureVars

\* shutdown begins (after the yield): cleanup_task.cancel()
ShutdownCancel ==
    /\ app.phase = "serving"
    /\ app' = [app EXCEPT !.phase = "await_task", !.cancel_requested = TRUE]
    /\ UNCHANGED << clock, temp_work_updates, work_updates, followup_sessions, next_id,
                    next_uuid, calls, result, cleanup_run, submit_run, complete_run >>
    /\ UNCHANGED pureVars

\* await cleanup_task: the task has ended; its CancelledError is caught and logged,
\* any other exception of the task leaves lifespan
ShutdownAwait ==
    /\ app.phase = "await_task" /\ app.cleanup_task \in {"cancelled", "ended"}
    /\ app' = [app EXCEPT !.phase = IF app.cleanup_task = "cancelled"
                                    THEN "closing" ELSE "failed"]
    /\ UNCHANGED << clock, temp_work_updates, work_updates, followup_sessions, next_id,
                    next_uuid, calls, result, cleanup_run, submit_run, complete_run >>
    /\ UNCHANGED pureVars

\* await close_mongo_connection()
CloseMongoConnection ==
    /\ app.phase = "closing"
    /\ app' = [app EXCEPT !.phase = "stopped", !.connected = FALSE]
    /\ UNCHANGED << clock, temp_work_updates, work_updates, followup_sessions, next_id,
                    next_uuid, calls, result, cleanup_run, submit_run, complete_run >>
    /\ UNCHANGED pureVars

\* the steps of the background task
TaskSteps ==
    \/ \E ttl_working \in BOOLEAN : TaskVerifyTtl(ttl_working)
    \/ \E fault \in IterationFaults : TaskCleanup(fault)
    \/ TaskWake
    \/ TaskCancelled

\* the steps of a shutdown that has begun
ShutdownSteps == ShutdownAwait \/ CloseMongoConnection

NextLifespan ==
    \/ Up /\ \E work_update \in SessionSubmissions : CreateWorkUpdate(work_update)
    \/ Up /\ \E d \in temp_work_updates : StartFollowup(ObjectIdStr(d._id), "u1", << >>)
    \/ Up /\ Tick
    \/ \E ttl_working \in BOOLEAN : TaskVerifyTtl(ttl_working)
    \/ \E fault \in IterationFaults : TaskCleanup(fault)
    \/ TaskWake
    \/ TaskCancelled
    \/ ShutdownCancel
    \/ ShutdownAwait
    \/ CloseMongoConnection

SpecLifespan ==
    /\ InitStore /\ [][NextLifespan]_vars
    /\ WF_vars(TaskSteps)
    /\ WF_vars(ShutdownSteps)

\* an iteration of the task that is not cancelled, failed or not, leaves the task
\* in its loop, at the sleep
IterationStep ==
    (app.cleanup_task = "cleanup" /\ ~app.cancel_requested
     /\ app'.cleanup_task # "cleanup")
        => app'.cleanup_task = "sleep"

\* the task is in its loop
Looping == app.cleanup_task \in {"loop", "cleanup", "sleep"}

\* C24: the background task keeps iterating after a failed cleanup run, ends only
\* when it is cancelled, and the cancellation at shutdown is absorbed: a shutdown
\* that has begun always closes the persistence connection
C24_TaskSurvivesErrorsShutdownCloses ==
    /\ [][IterationStep]_vars
    /\ [](app.phase = "serving" => Looping)
    /\ [](app.phase # "failed")
    /\ (app.last_run = "error" /\ app.cleanup_task = "sleep")
           ~> (app.cleanup_task = "cleanup" \/ app.phase # "serving")
    /\ (app.phase = "await_task") ~> (~app.connected /\ app.cleanup_task = "cancelled")

\* the application has stopped with the connection closed, after a failed iteration
\* of the task, a later cleanup that deleted a temporary record and its session,
\* and a cancellation
C24_Witness ==
    /\ app.phase = "stopped" /\ ~app.connected /\ app.cleanup_task = "cancelled"
    /\ app.last_run = "ok"
    /\ result.called /\ result.op = "cleanup" /\ result.deleted_temp_updates = 1
    /\ result.deleted_sessions = 1

(***************************************************************************)
(* History specification: the two stores fill up with work updates of two  *)
(* users, submitted at scattered times of the last days and before, and    *)
(* generate_followup_questions builds its prompt from them.  The call time *)
(* is 09:00 on 2024-01-11.                                                 *)
(***************************************************************************)
\* the records stored before the call
MaxStored == 13

\* the k-th stored record, with a description and plans: its submission time is
\* scattered over the last six days, the 9th is nine days old and the 4th is
\* another user's
StoredDoc(k) ==
    WorkUpdateDoc(k, IF k = 4 THEN "u2" ELSE "u1", "working", Chars("Fixed two bugs"),
                  None, Chars("write docs"),
                  IF k = 9 THEN GenNow - 9 * HoursPerDay
                  ELSE GenNow - (((k * 5) % 13) * 12 + 1),
                  "completed", TRUE)

\* one more record is stored, in the permanent or in the temporary collection
AddStored(permanent) ==
    /\ genIn = NoCall
    /\ next_id <= MaxStored
    /\ (next_id % 2 = 0) => permanent
    /\ work_updates' = IF permanent THEN work_updates \cup {StoredDoc(next_id)}
                       ELSE work_updates
    /\ temp_work_updates' = IF permanent THEN temp_work_updates
                            ELSE temp_work_updates \cup {StoredDoc(next_id)}
    /\ next_id' = next_id + 1
    /\ UNCHANGED << clock, followup_sessions, next_uuid, calls, result, cleanup_run,
                    submit_run, app, complete_run >>
    /\ UNCHANGED pureVars

\* lines 33-65 of generate_followup_questions: the two reads, the filter, the sort,
\* the cut to 10, the two context blocks and the prompt
generate_prompt(user_id, work_update_data, work_updates_collection, temp_updates_collection, now) ==
    LET permanent_updates == Find(work_updates_collection, user_id)
        temp_list == Find(temp_updates_collection, user_id)
        all_work_updates == permanent_updates \o temp_list
        recent_docs == RecentDocs(all_work_updates, now)
        current_context == IF DOMAIN work_update_data # {}
                           THEN build_current_work_context(work_update_data)
                           ELSE Return(<< >>)
        history_context == IF recent_docs # << >>
                           THEN build_work_history_context(recent_docs)
                           ELSE Return(<< >>)
        prompt == build_ai_prompt(current_context.val, history_context.val, recent_docs, now)
    IN  IF FilterRaises(all_work_updates) THEN Raise("TypeError")
        ELSE IF current_context.raised THEN current_context
        ELSE IF history_context.raised THEN history_context
        ELSE IF prompt.raised THEN prompt
        ELSE Return([recent_docs |-> recent_docs, prompt |-> prompt.val])

\* generate_followup_questions(user_id, work_update_data) up to the model call
GeneratePrompt(user_id, work_update_data) ==
    /\ genIn = NoCall
    /\ genIn' = [called |-> TRUE, user_id |-> user_id,
                 work_update_data |-> work_update_data]
    /\ genOut' = [called |-> TRUE] @@
                 generate_prompt(user_id, work_update_data, work_updates,
                                 temp_work_updates, GenNow)
    /\ UNCHANGED << response, parsed >>
    /\ UNCHANGED storeVars

NextHistory ==
    \/ \E permanent \in BOOLEAN : AddStored(permanent)
    \/ \E user_id \in Users :
           GeneratePrompt(user_id, [description |-> Chars("Wrote the report"),
                                    challenges |-> None, plans |-> None,
                                    user_id |-> user_id])

SpecHistory == InitStore /\ [][NextHistory]_vars

\* the records of user_id in both stores submitted within the 7 days before now
RecentOf(user_id, now) ==
    {d \in work_updates \cup temp_work_updates :
        d.userId = user_id /\ d.submittedAt.t > now - 7 * HoursPerDay}

\* the elements of a sequence
Range(seq) == {seq[i] : i \in 1..Len(seq)}

\* C25: the history passed to the prompt is made of the newest (at most 10) records
\* of the requesting user, from both stores together, that are at most 7 days old,
\* newest first: no record of another user, none older than 7 days, never more
\* than 10, and no record left out that is newer than one that is in
C25_HistoryIsNewestTen ==
    (genOut.called /\ ~genOut.raised) =>
        LET history == genOut.val.recent_docs
            recent == RecentOf(genIn.user_id, GenNow)
        IN  /\ Range(history) \subseteq recent
            /\ Len(history) = Cardinality(Range(history))
            /\ Len(history) = IF Cardinality(recent) < 10 THEN Cardinality(recent) ELSE 10
            /\ \A i \in 1..(Len(history) - 1) :
                   history[i].submittedAt.t >= history[i + 1].submittedAt.t
            /\ \A d \in recent \ Range(history) : \A h \in Range(history) :
                   d.submittedAt.t <= h.submittedAt.t
            /\ genOut.val.prompt.seven_day_history
                   = IF history = << >> THEN << >>
                     ELSE build_work_history_context(history).val

\* eleven records of the user are recent, in both stores, beside an older one and
\* another user's: the history holds ten of them and leaves the oldest out
C25_Witness ==
    /\ genOut.called /\ ~genOut.raised
    /\ genIn.user_id = "u1"
    /\ Cardinality(RecentOf("u1", GenNow)) = 11
    /\ Len(genOut.val.recent_docs) = 10
    /\ \E d \in temp_work_updates : d \in Range(genOut.val.recent_docs)
    /\ \E d \in work_updates : d \in Range(genOut.val.recent_docs)
    /\ StoredDoc(9) \in work_updates \cup temp_work_updates
    /\ StoredDoc(4) \in work_updates

(***************************************************************************)
(* Blocks specification: _build_work_history_context is called on lists of *)
(* stored records as create_work_update writes them: leave records have a  *)
(* None description, and challenges and plans that were not given are None.*)
(***************************************************************************)
\* stored records: working updates with and without challenges and plans, one with
\* a blank description, and leave records
BlockDocs ==
    { WorkUpdateDoc(1, "u1", "working", Chars(" Fixed two bugs "), challenges, plans,
                    GenNow - 16, "completed", TRUE) :
          challenges \in {None, Chars("  "), Chars(" flaky tests ")},
          plans \in {None, Chars("write docs")} }
    \cup { WorkUpdateDoc(2, "u1", "working", Chars("  "), None, None, GenNow - 16,
                         "completed", TRUE),
           WorkUpdateDoc(3, "u1", "on_leave", None, None, None, GenNow - 16,
                         "completed", TRUE),
           WorkUpdateDoc(4, "u1", "on_leave", None, None, Chars("back on Monday"),
                         GenNow - 16, "completed", TRUE) }

\* self._build_work_history_context(recent_docs)
BuildHistory ==
    /\ ~genIn.called
    /\ genIn' = [genIn EXCEPT !.called = TRUE]
    /\ genOut' = [called |-> TRUE] @@ build_work_history_context(genIn.recent_docs)
    /\ UNCHANGED << response, parsed >>
    /\ UNCHANGED storeVars

NextBlocks ==
    \/ \E doc \in BlockDocs : AddRecentDoc(doc)
    \/ BuildHistory

SpecBlocks == InitPlans /\ [][NextBlocks]_vars

\* the record has field `key` with a text that is not blank
PresentNonBlank(doc, key) ==
    key \in DOMAIN doc /\ doc[key] # None /\ Strip(doc[key]) # << >>

\* the line of one field: present exactly when the field is present and non-blank
FieldLine(doc, key, label) ==
    IF PresentNonBlank(doc, key) THEN << Chars(label) \o Strip(doc[key]) >> ELSE << >>

\* the block the claim describes for one record
ExpectedBlock(doc) ==
    << Chars("Date: ") \o FormatDate(DateOf(doc.submittedAt.t)) >>
    \o FieldLine(doc, "description", "Work: ")
    \o FieldLine(doc, "challenges", "Challenges: ")
    \o FieldLine(doc, "plans", "Plans: ")
    \o << Chars("---") >>

RECURSIVE ExpectedBlocks(_)
ExpectedBlocks(docs) ==
    IF docs = << >> THEN << >>
    ELSE ExpectedBlock(Head(docs)) \o ExpectedBlocks(Tail(docs))

\* C26: for every list of stored records, leave records (null description) and
\* records with null or blank challenges or plans included, the history context is
\* one block per record in list order, with the record's date and a line for each
\* of description, challenges and plans exactly when the field is present and
\* non-blank
C26_OneBlockPerRecord ==
    genOut.called =>
        /\ ~genOut.raised
        /\ genOut.val = JoinLines(<< Chars("RECENT WORK HISTORY:") >>
                                  \o ExpectedBlocks(genIn.recent_docs))

(***************************************************************************)
(* Challenges specification: today's submission is rendered by             *)
(* _build_current_work_context and its challenges are read back from the   *)
(* rendered block by _extract_current_challenges, as _build_ai_prompt      *)
(* does.  Descriptions and challenges are free text and may hold several   *)
(* lines.                                                                  *)
(***************************************************************************)
\* what the fields of work_update_data can hold: the description of a working
\* submission is a text that is not blank
WorkDataValues(key) ==
    IF key = "description"
    THEN {Chars("Built the login page"), Chars(" Fixed two bugs "),
          Chars("Wrote the report\nsee Challenges Today: below"),
          Chars("Fixed two bugs\nChallenges Today: none so far")}
    ELSE IF key = "challenges"
    THEN {None, << >>, Chars("  "), Chars(" flaky tests "),
          Chars("slow build\nflaky tests"), Chars("see Challenges Today: list")}
    ELSE {None, Chars("write docs")}

InitChallenges ==
    /\ response = << >>
    /\ parsed = NoCall
    /\ genIn = [called |-> FALSE, work_data |-> [user_id |-> "u1"]]
    /\ genOut = NoCall
    /\ StoresIdle

\* work_update_data has one more field
SetWorkData(key, value) ==
    /\ ~genIn.called
    /\ key \notin DOMAIN genIn.work_data
    /\ genIn' = [genIn EXCEPT !.work_data = (key :> value) @@ @]
    /\ UNCHANGED << response, parsed, genOut >>
    /\ UNCHANGED storeVars

\* current_context = self._build_current_work_context(work_update_data), then
\* self._extract_current_challenges(current_context)
ExtractChallenges ==
    /\ ~genIn.called
    /\ genIn' = [genIn EXCEPT !.called = TRUE]
    /\ \E current_context \in {build_current_work_context(genIn.work_data)} :
           genOut' = [called |-> TRUE] @@
                     (IF current_context.raised THEN current_context
                      ELSE Return(extract_current_challenges(current_context.val)))
    /\ UNCHANGED << response, parsed >>
    /\ UNCHANGED storeVars

NextChallenges ==
    \/ \E key \in {"description", "challenges", "plans"} :
           \E value \in WorkDataValues(key) : SetWorkData(key, value)
    \/ ExtractChallenges

SpecChallenges == InitChallenges /\ [][NextChallenges]_vars

\* C29: the challenges read back from the rendered block are the submission's
\* trimmed challenges when these are present and non-blank, and "No challenges
\* mentioned" otherwise, whatever the description holds and however many lines the
\* challenges have
C29_ChallengesRoundTrip ==
    genOut.called =>
        /\ ~genOut.raised
        /\ genOut.val = IF PresentNonBlank(genIn.work_data, "challenges")
                        THEN Strip(genIn.work_data.challenges)
                        ELSE Chars("No challenges mentioned")

(***************************************************************************)
(* Completion specification: PUT /api/followup/{session_id}/complete runs  *)
(* await by await (the find_one on the session, get_temp_work_update, the  *)
(* update_one on the session, then inside move_temp_to_permanent the       *)
(* find_one on the temporary record, the find_one on the permanent         *)
(* collection, the replace_one or insert_one, the delete_one, and last the *)
(* update_one that links the session), while submissions, follow-up        *)
(* starts, the cleanup, the TTL monitor and the passing of days take their *)
(* steps in between.  The process may die between any two awaits.          *)
(***************************************************************************)
CompleteIdle == [pc |-> "idle"]

\* an insert_one that is acknowledged and writes nothing
insert_one_writes_nothing(collection, doc, new_id) == collection

\* collection.insert_one(doc): the store assigns the _id
InsertOne(collection, doc, new_id) == collection \cup {WithId(doc, new_id)}

\* request bodies: two working submissions of one user
CompletionSubmissions ==
    { WorkUpdateCreate("u1", "working", Chars("Built the login page"), None,
                       Chars("deploy service")),
      WorkUpdateCreate("u1", "working", Chars("Fixed two bugs"), None, None) }

\* the response of the route, as CompleteFollowup records it
CompleteAnswer(session_id, answers, status_code, id) ==
    [called |-> TRUE, op |-> "complete_followup_session", session_id |-> session_id,
     answers |-> answers, status_code |-> status_code, id |-> id]

\* the request ends with an HTTPException: the response and no further step
CompleteFails(status_code) ==
    /\ result' = CompleteAnswer(complete_run.session_id, complete_run.answers,
                                status_code, << >>)
    /\ complete_run' = CompleteIdle

\* main.py 877-901: the two validations, the find_one on the session, and the
\* subscript session["tempWorkUpdateId"]
CompleteBegin(session_id, answers) ==
    /\ complete_run.pc = "idle"
    /\ Served
    /\ \E session \in {FindById(followup_sessions, session_id)} :
           IF AnswersRejected(answers)
           THEN /\ result' = CompleteAnswer(session_id, answers, 400, << >>)
                /\ UNCHANGED complete_run
           ELSE IF Missing(session)
           THEN /\ result' = CompleteAnswer(session_id, answers, 404, << >>)
                /\ UNCHANGED complete_run
           ELSE IF "tempWorkUpdateId" \notin DOMAIN TheOne(session)
           THEN /\ result' = CompleteAnswer(session_id, answers, 500, << >>)
                /\ UNCHANGED complete_run
           ELSE /\ complete_run' = [pc |-> "get_temp", session_id |-> session_id,
                                    answers |-> answers, session |-> TheOne(session)]
                /\ UNCHANGED result
    /\ UNCHANGED << clock, temp_work_updates, work_updates, followup_sessions, next_id,
                    next_uuid >>
    /\ UNCHANGED << pureVars, cleanup_run, submit_run, app >>

\* main.py 900-906: get_temp_work_update and the existence check
CompleteGetTemp ==
    /\ complete_run.pc = "get_temp"
    /\ IF Missing(get_temp_work_update(temp_work_updates,
                                       complete_run.session.tempWorkUpdateId))
       THEN CompleteFails(404)
       ELSE /\ complete_run' = [complete_run EXCEPT !.pc = "update_session"]
            /\ UNCHANGED result
    /\ UNCHANGED << clock, temp_work_updates, work_updates, followup_sessions, next_id,
                    next_uuid, calls >>
    /\ UNCHANGED << pureVars, cleanup_run, submit_run, app >>

\* main.py 908-918: the update_one that stores the answers and marks the session
\* completed
CompleteUpdateSession ==
    /\ complete_run.pc = "update_session"
    /\ followup_sessions' = UpdateOne(followup_sessions, complete_run.session_id,
                                      session_update(complete_run.answers, clock))
    /\ complete_run' = [complete_run EXCEPT !.pc = "move_find_temp"]
    /\ UNCHANGED << clock, temp_work_updates, work_updates, next_id, next_uuid, calls,
                    result >>
    /\ UNCHANGED << pureVars, cleanup_run, submit_run, app >>

\* database.py 441-456: the find_one on the temporary record (ValueError when it is
\* gone, answered 500 by the route at 944-949) and the permanent document built from it
MoveFindTemp ==
    /\ complete_run.pc = "move_find_temp"
    /\ \E temp_id \in {complete_run.session.tempWorkUpdateId} :
           IF ~IsObjectIdStr(temp_id) \/ FindById(temp_work_updates, ObjectId(temp_id)) = {}
           THEN CompleteFails(500)
           ELSE /\ complete_run' =
                       [pc |-> "move_find_permanent",
                        temp_update |-> FirstOf(FindById(temp_work_updates,
                                                         ObjectId(temp_id))),
                        permanent_update |->
                            Updated(Updated(WithoutId(FirstOf(FindById(temp_work_updates,
                                                                       ObjectId(temp_id)))),
                                            [completedAt |-> DateTime(clock)]),
                                    [followupCompleted |-> TRUE, status |-> "completed",
                                     completedAt |-> DateTime(clock)])]
                       @@ complete_run
                /\ UNCHANGED result
    /\ UNCHANGED << clock, temp_work_updates, work_updates, followup_sessions, next_id,
                    next_uuid, calls >>
    /\ UNCHANGED << pureVars, cleanup_run, submit_run, app >>

\* database.py 458-462: the find_one on the permanent collection by (userId,
\* update_date)
MoveFindPermanent ==
    /\ complete_run.pc = "move_find_permanent"
    /\ complete_run' =
           [pc |-> "move_write",
            existing_permanent |->
                FindByUserDate(work_updates, complete_run.permanent_update.userId,
                               complete_run.permanent_update.update_date)]
           @@ complete_run
    /\ UNCHANGED << clock, temp_work_updates, work_updates, followup_sessions, next_id,
                    next_uuid, calls, result >>
    /\ UNCHANGED << pureVars, cleanup_run, submit_run, app >>

\* database.py 464-474: the replace_one on the record found, or the insert_one, which
\* the unique index on (userId, update_date) refuses when a record for the pair was
\* written in between (DuplicateKeyError, re-raised at 482-484 and answered 500)
MoveWrite ==
    /\ complete_run.pc = "move_write"
    /\ IF complete_run.existing_permanent # {}
       THEN /\ work_updates' = ReplaceOne(work_updates,
                                          FirstOf(complete_run.existing_permanent)._id,
                                          complete_run.permanent_update)
            /\ complete_run' =
                   [pc |-> "move_delete",
                    permanent_id |->
                        ObjectIdStr(FirstOf(complete_run.existing_permanent)._id)]
                   @@ complete_run
            /\ UNCHANGED << next_id, result >>
       ELSE IF DuplicateKey(work_updates, complete_run.permanent_update)
       THEN /\ CompleteFails(500)
            /\ UNCHANGED << work_updates, next_id >>
       ELSE /\ work_updates' = InsertOne(work_updates, complete_run.permanent_update,
                                         next_id)
            /\ next_id' = next_id + 1
            /\ complete_run' = [pc |-> "move_delete",
                                permanent_id |-> ObjectIdStr(next_id)] @@ complete_run
            /\ UNCHANGED result
    /\ UNCHANGED << clock, temp_work_updates, followup_sessions, next_uuid, calls >>
    /\ UNCHANGED << pureVars, cleanup_run, submit_run, app >>

\* database.py 476-480: the delete_one on the temporary record, by its _id
MoveDelete ==
    /\ complete_run.pc = "move_delete"
    /\ temp_work_updates' =
           delete_one(temp_work_updates,
                      ObjectId(complete_run.session.tempWorkUpdateId)).val
    /\ complete_run' = [complete_run EXCEPT !.pc = "link"]
    /\ UNCHANGED << clock, work_updates, followup_sessions, next_id, next_uuid, calls,
                    result >>
    /\ UNCHANGED << pureVars, cleanup_run, submit_run, app >>

\* main.py 926-940: the update_one that sets workUpdateId, and the response
CompleteLink ==
    /\ complete_run.pc = "link"
    /\ followup_sessions' = UpdateOne(followup_sessions, complete_run.session_id,
                                      [workUpdateId |-> complete_run.permanent_id])
    /\ result' = CompleteAnswer(complete_run.session_id, complete_run.answers, 200,
                                complete_run.permanent_id)
    /\ complete_run' = CompleteIdle
    /\ UNCHANGED << clock, temp_work_updates, work_updates, next_id, next_uuid, calls >>
    /\ UNCHANGED << pureVars, cleanup_run, submit_run, app >>

\* the process dies between two awaits of the request: no further step of it runs
Crash ==
    /\ complete_run.pc # "idle"
    /\ complete_run' = CompleteIdle
    /\ result' = [called |-> TRUE, op |-> "crash", pc |-> complete_run.pc]
    /\ UNCHANGED << clock, temp_work_updates, work_updates, followup_sessions, next_id,
                    next_uuid, calls >>
    /\ UNCHANGED << pureVars, cleanup_run, submit_run, app >>

\* submissions, starts and completions, with no expiry and no cleanup
NextPromotion ==
    \/ \E work_update \in CompletionSubmissions : CreateWorkUpdate(work_update)
    \/ \E d \in temp_work_updates : StartFollowup(ObjectIdStr(d._id), "u1", << >>)
    \/ \E x \in followup_sessions, answers \in AnswerLists : CompleteBegin(x._id, answers)
    \/ CompleteGetTemp
    \/ CompleteUpdateSession
    \/ MoveFindTemp
    \/ MoveFindPermanent
    \/ MoveWrite
    \/ MoveDelete
    \/ CompleteLink
    \/ Crash
    \/ Tick

SpecPromotion == InitStore /\ [][NextPromotion]_vars

\* the (user, date) pairs that have a record in the temporary or the permanent area
StoredKeys(temp_collection, permanent_collection) ==
    {<< d.userId, d.update_date >> : d \in temp_collection \cup permanent_collection}

\* a step loses no update: every (user, date) stored before it is stored after it
KeysKept ==
    StoredKeys(temp_work_updates, work_updates)
        \subseteq StoredKeys(temp_work_updates', work_updates')

\* the promotion has read its temporary record and has not returned yet
Promoting ==
    complete_run.pc \in {"move_find_permanent", "move_write", "move_delete", "link"}

\* the update the promotion in progress has read is stored in one of the areas
PromotedUpdateStored ==
    Promoting =>
        << complete_run.temp_update.userId, complete_run.temp_update.update_date >>
            \in StoredKeys(temp_work_updates, work_updates)

\* C32: promotion never loses the update: at every step of move_temp_to_permanent,
\* and after a crash at any step, the update of the (user, date) is in the temporary
\* or in the permanent area, since the permanent write precedes the temporary delete;
\* without expiry, no step takes a stored update out of both areas.
C32_PromotionNeverLosesUpdate == []PromotedUpdateStored /\ [][KeysKept]_vars

\* the process died after the permanent write and before the temporary delete: the
\* update is in both areas
C32_Witness ==
    /\ result.called /\ result.op = "crash" /\ result.pc = "move_delete"
    /\ temp_work_updates # {}
    /\ StoredKeys(temp_work_updates, {}) = StoredKeys({}, work_updates)

\* the same requests, with the TTL monitor and the cleanup running await by await
\* beside them
NextCompletion ==
    \/ \E work_update \in CompletionSubmissions : CreateWorkUpdate(work_update)
    \/ \E d \in temp_work_updates : StartFollowup(ObjectIdStr(d._id), "u1", << >>)
    \/ \E x \in followup_sessions, answers \in AnswerLists : CompleteBegin(x._id, answers)
    \/ CompleteGetTemp
    \/ CompleteUpdateSession
    \/ MoveFindTemp
    \/ MoveFindPermanent
    \/ MoveWrite
    \/ MoveDelete
    \/ CompleteLink
    \/ \E doc \in temp_work_updates : ExpireTemp(doc)
    \/ Tick
    \/ CleanupFind(HoursPerDay)
    \/ CleanupDeleteSessions
    \/ CleanupDeleteTemp
    \/ CleanupReturn

SpecCompletion == InitStore /\ [][NextCompletion]_vars

\* the step gives the response of a completion request
CompletionAnswered ==
    /\ result'.called /\ result'.op = "complete_followup_session"
    /\ complete_run'.pc = "idle"
    /\ \/ complete_run.pc # "idle"
       \/ calls' = calls + 1

\* the session the request names, as the request found it
SessionRead ==
    IF complete_run.pc = "idle" THEN FindById(followup_sessions, result'.session_id)
    ELSE {complete_run.session}

\* the session is pending and none of its questions is answered
PendingUnanswered(x) == x.status = "pending" /\ x.answers = EmptyAnswers(x.questions)

\* a completion request that found its session pending ends with an error: the
\* session, if it is still stored, is pending and unanswered
FailedCompletionStep ==
    (/\ CompletionAnswered
     /\ result'.status_code # 200
     /\ \E x \in SessionRead : PendingUnanswered(x))
    => \A x \in FindById(followup_sessions', result'.session_id) : PendingUnanswered(x)

\* C33: a failed completion leaves the session pending: whenever
\* complete_followup_session ends with an error, also when the temporary update
\* disappears (by expiry or cleanup) between the existence check and the promotion,
\* the session's status is still pending and its answers are still empty.
C33_FailedCompletionLeavesPending == [][FailedCompletionStep]_vars

\* no follow-up start has replaced the session since the request completed it
NotRestarted(session_id) ==
    \A x \in FindById(followup_sessions, session_id) : x.status = "completed"

\* a completion request answers 200: a session with the id is stored, it is completed,
\* and its workUpdateId names a stored permanent record of the session's user
SuccessfulCompletionStep ==
    (/\ CompletionAnswered
     /\ result'.status_code = 200
     /\ NotRestarted(result'.session_id))
    => \E x \in FindById(followup_sessions', result'.session_id) :
           /\ x.status = "completed"
           /\ "workUpdateId" \in DOMAIN x
           /\ \E p \in work_updates' :
                  ObjectIdStr(p._id) = x.workUpdateId /\ p.userId = x.userId

\* C34: whenever complete_followup_session returns success there is a session with
\* the given id whose status is completed and whose workUpdateId is the id of a
\* stored permanent record of the session's user, for every interleaving of the
\* completion with a run of cleanup_abandoned_temp_updates.
C34_SuccessMeansLinkedSession == [][SuccessfulCompletionStep]_vars

\* what the user submitted, and when
SameSubmission(d, e) ==
    /\ d.userId = e.userId /\ d.update_date = e.update_date
    /\ d.description = e.description /\ d.challenges = e.challenges
    /\ d.plans = e.plans /\ d.submittedAt = e.submittedAt

\* the promotion's delete_one removes a temporary record: what that record held is
\* in the permanent area
PromotionDeleteStep ==
    (complete_run.pc = "move_delete" /\ complete_run'.pc = "link")
    => \A d \in temp_work_updates \ temp_work_updates' :
           \E e \in work_updates' \cup temp_work_updates' : SameSubmission(d, e)

\* C35: no accepted submission is silently lost by a concurrent promotion: when the
\* user submits the day's update again, replacing the temporary record, while a
\* promotion of that record is between its read and its delete, the re-submitted
\* content is in the temporary or the permanent area after both have finished.
C35_ResubmissionSurvivesPromotion == [][PromotionDeleteStep]_vars

(***************************************************************************)
(* Orphans specification: the requests, the passing days, the TTL monitor  *)
(* and the hourly task of the expiry specification, with the TTL monitor   *)
(* and the hourly task both kept running.                                  *)
(***************************************************************************)
SpecOrphans ==
    /\ InitStore /\ [][NextExpiry]_vars
    /\ WF_vars(TimePasses)
    /\ WF_vars(TtlMonitor)
    /\ WF_vars(CleanupTask)

\* the sessions that reference the temporary record with ObjectId n
ReferringTo(n) ==
    {x \in followup_sessions :
        "tempWorkUpdateId" \in DOMAIN x /\ x.tempWorkUpdateId = ObjectIdStr(n)}

\* the temporary record n is gone and the sessions that reference it are all pending:
\* the record was removed without being promoted
Orphaned(n) ==
    /\ ~TempStored(n)
    /\ ReferringTo(n) # {}
    /\ \A x \in ReferringTo(n) : x.status = "pending"

\* C36: a session never outlives its abandoned temporary update indefinitely: when a
\* temporary record is removed without being promoted, by the store's expiry or by
\* the cleanup, every pending session whose tempWorkUpdateId references it is
\* eventually deleted, given that the hourly cleanup task keeps running.
C36_OrphanedSessionsDeleted ==
    \A n \in 1..(MaxCalls + 1) : Orphaned(n) ~> (ReferringTo(n) = {})

====
